---- MODULE Spec2Model ----
(***************************************************************************)
(* A model of the scikit-learn <-> OpenML flow codec of openml-python:     *)
(*   src/openml/extensions/sklearn/functions.py                            *)
(*   src/openml/extensions/sklearn_extension.py                            *)
(*                                                                         *)
(* Python values are tagged records (field t is the tag).  A Python str is *)
(* a sequence of glyphs.  A glyph is one character that matters to JSON or *)
(* to the dependency grammar (a quote, a bracket, a digit, ...) or a whole *)
(* word of letters ("steps", "null") that no lexer looks inside.           *)
(***************************************************************************)
EXTENDS Integers, Sequences, FiniteSets, TLC

----------------------------------------------------------------------------
(* Glyphs and Python str *)

QUOTE == "\""
BSLASH == "\\"
SPACE == " "

Digits == <<"0", "1", "2", "3", "4", "5", "6", "7", "8", "9">>

IsDigit(g) == \E d \in 1..10 : Digits[d] = g

DigitVal(g) == (CHOOSE d \in 1..10 : Digits[d] = g) - 1

\* The code-point order of the glyphs the model uses (Python compares str by
\* code point; a word glyph sorts by its letters).
GlyphOrder ==
  <<SPACE, QUOTE, "(", ")", ",", "-", ".",
    "0", "1", "2", "3", "4", "5", "6", "7", "8", "9",
    ":", "=", ">", "@", "A", "B", "C", "Ens", "KFold", "LeaveOneOut", "Pipe", "R",
    "Stack", "[", BSLASH, "]", "__",
    "a", "alpha", "args", "argument_1", "b", "base_estimator", "c",
    "component_reference", "cv", "cv_object", "dev", "dist", "false", "fit",
    "float", "foo", "function", "gone", "gone_gen", "int", "key", "kwds", "loc",
    "memory", "mypkg", "n_splits", "name", "np.float", "np.float32", "np.float64",
    "np.int", "np.int32", "np.int64", "null", "numpy", "oldpkg",
    "oml-python:serialized_object", "openml", "parameters", "random_state",
    "rv_frozen", "scale", "scipy", "score", "shuffle", "sklearn",
    "step_name", "steps", "true", "type", "uniform_gen", "value", "y", "{", "}">>

GlyphRank(g) == CHOOSE r \in 1..Len(GlyphOrder) : GlyphOrder[r] = g

RECURSIVE StrLess(_, _)
\* Python's a < b on two str
StrLess(a, b) ==
  IF b = <<>> THEN FALSE
  ELSE IF a = <<>> THEN TRUE
  ELSE IF a[1] = b[1] THEN StrLess(Tail(a), Tail(b))
  ELSE GlyphRank(a[1]) < GlyphRank(b[1])

----------------------------------------------------------------------------
(* Python values *)

VNone == [t |-> "none"]
VBool(x) == [t |-> "bool", b |-> x]
VInt(x) == [t |-> "int", i |-> x]
VStr(x) == [t |-> "str", s |-> x]
VList(x) == [t |-> "list", e |-> x]
VTuple(x) == [t |-> "tuple", e |-> x]
\* a dict (ordered = FALSE) or an OrderedDict (ordered = TRUE); kv is the
\* sequence of <<key, value>> items in iteration order
VDict(x) == [t |-> "dict", ordered |-> FALSE, kv |-> x]
VODict(x) == [t |-> "dict", ordered |-> TRUE, kv |-> x]
\* an object of no supported kind
Other == [t |-> "other"]
\* a raised exception
Raise(x) == [t |-> "error", exc |-> x]

IsErr(v) == v.t = "error"
IsSeq(v) == v.t \in {"list", "tuple"}

W(g) == VStr(<<g>>)

----------------------------------------------------------------------------
(* json.dumps *)

RECURSIVE IntText(_)
\* str(i) for an int
IntText(i) ==
  IF i < 0 THEN <<"-">> \o IntText(0 - i)
  ELSE IF i < 10 THEN <<Digits[i + 1]>>
  ELSE IntText(i \div 10) \o <<Digits[(i % 10) + 1]>>

RECURSIVE EscapeText(_)
\* the body of a JSON string literal: a quote and a backslash are escaped
EscapeText(s) ==
  IF s = <<>> THEN <<>>
  ELSE (IF s[1] \in {QUOTE, BSLASH} THEN <<BSLASH, s[1]>> ELSE <<s[1]>>)
       \o EscapeText(Tail(s))

StrLiteral(s) == <<QUOTE>> \o EscapeText(s) \o <<QUOTE>>

RECURSIVE JsonSerializable(_)
\* json.dumps raises TypeError on any other object, and on a mapping key that
\* is not a str, int, bool or None
JsonSerializable(v) ==
  CASE v.t \in {"none", "bool", "int", "str"} -> TRUE
    [] v.t \in {"list", "tuple"} ->
         \A n \in 1..Len(v.e) : JsonSerializable(v.e[n])
    [] v.t = "dict" ->
         \A n \in 1..Len(v.kv) :
            /\ v.kv[n][1].t \in {"none", "bool", "int", "str"}
            /\ JsonSerializable(v.kv[n][2])
    [] OTHER -> FALSE

\* the text json.dumps gives a mapping key
KeyText(k) ==
  CASE k.t = "str" -> StrLiteral(k.s)
    [] k.t = "int" -> StrLiteral(IntText(k.i))
    [] k.t = "bool" -> StrLiteral(IF k.b THEN <<"true">> ELSE <<"false">>)
    [] OTHER -> StrLiteral(<<"null">>)

RECURSIVE Dumps(_)
RECURSIVE DumpsItems(_, _)
\* the items of a list (isDict = FALSE) or of a mapping, joined by ", "
DumpsItems(items, isDict) ==
  IF items = <<>> THEN <<>>
  ELSE (IF isDict
          THEN KeyText(items[1][1]) \o <<":", SPACE>> \o Dumps(items[1][2])
          ELSE Dumps(items[1]))
       \o (IF Len(items) > 1 THEN <<",", SPACE>> ELSE <<>>)
       \o DumpsItems(Tail(items), isDict)

\* json.dumps(v) for a serializable v, with the default separators
Dumps(v) ==
  CASE v.t = "none" -> <<"null">>
    [] v.t = "bool" -> IF v.b THEN <<"true">> ELSE <<"false">>
    [] v.t = "int" -> IntText(v.i)
    [] v.t = "str" -> StrLiteral(v.s)
    [] v.t \in {"list", "tuple"} -> <<"[">> \o DumpsItems(v.e, FALSE) \o <<"]">>
    [] v.t = "dict" -> <<"{">> \o DumpsItems(v.kv, TRUE) \o <<"}">>

----------------------------------------------------------------------------
(* json.loads: the decoder of the standard library, on glyphs *)

NoParse == [ok |-> FALSE, v |-> VNone, n |-> 0]
Parsed(val, next) == [ok |-> TRUE, v |-> val, n |-> next]

At(t, i) == IF i >= 1 /\ i <= Len(t) THEN t[i] ELSE "EOF"

RECURSIVE SkipWs(_, _)
SkipWs(t, i) == IF At(t, i) \in {SPACE, "\n"} THEN SkipWs(t, i + 1) ELSE i

RECURSIVE ScanString(_, _, _)
\* scanstring from position i, the opening quote consumed. No str of the
\* model has a backslash before anything but a quote or a backslash.
ScanString(t, i, acc) ==
  CASE At(t, i) = "EOF" -> NoParse
    [] At(t, i) = QUOTE -> Parsed(VStr(acc), i + 1)
    [] At(t, i) = BSLASH ->
         IF At(t, i + 1) \in {QUOTE, BSLASH}
           THEN ScanString(t, i + 2, Append(acc, t[i + 1]))
           ELSE NoParse
    [] OTHER -> ScanString(t, i + 1, Append(acc, t[i]))

RECURSIVE ScanDigits(_, _, _)
\* the digits from position i on, as [v |-> the number, n |-> the end]
ScanDigits(t, i, acc) ==
  IF IsDigit(At(t, i)) THEN ScanDigits(t, i + 1, 10 * acc + DigitVal(t[i]))
  ELSE [v |-> acc, n |-> i]

\* NUMBER_RE: -?(0|[1-9][0-9]*); the model has no fraction or exponent glyph
ScanNumber(t, i) ==
  LET neg == At(t, i) = "-"
      j == IF neg THEN i + 1 ELSE i
  IN  IF ~IsDigit(At(t, j)) THEN NoParse
      ELSE IF t[j] = "0" THEN Parsed(VInt(0), j + 1)
      ELSE LET d == ScanDigits(t, j, 0)
           IN  Parsed(VInt(IF neg THEN 0 - d.v ELSE d.v), d.n)

\* dict(pairs): a repeated key keeps its first place and takes the last value
DictPut(kv, k, v) ==
  IF \E n \in 1..Len(kv) : kv[n][1] = k
    THEN [n \in 1..Len(kv) |-> IF kv[n][1] = k THEN <<k, v>> ELSE kv[n]]
    ELSE Append(kv, <<k, v>>)

RECURSIVE ScanOnce(_, _)
RECURSIVE ScanArray(_, _, _)
RECURSIVE ScanObject(_, _, _)

\* JSONArray: position i is where the next element starts
ScanArray(t, i, acc) ==
  LET r == ScanOnce(t, i)
      j == SkipWs(t, r.n)
  IN  IF ~r.ok THEN NoParse
      ELSE IF At(t, j) = "]" THEN Parsed(VList(Append(acc, r.v)), j + 1)
      ELSE IF At(t, j) = "," THEN ScanArray(t, SkipWs(t, j + 1), Append(acc, r.v))
      ELSE NoParse

\* JSONObject: position i is where the next key's opening quote must be
ScanObject(t, i, acc) ==
  IF At(t, i) # QUOTE THEN NoParse
  ELSE LET k == ScanString(t, i + 1, <<>>)
           c == SkipWs(t, k.n)
       IN  IF ~k.ok \/ At(t, c) # ":" THEN NoParse
           ELSE LET r == ScanOnce(t, SkipWs(t, c + 1))
                    j == SkipWs(t, r.n)
                IN  IF ~r.ok THEN NoParse
                    ELSE IF At(t, j) = "}"
                      THEN Parsed(VDict(DictPut(acc, k.v, r.v)), j + 1)
                    ELSE IF At(t, j) = ","
                      THEN ScanObject(t, SkipWs(t, j + 1), DictPut(acc, k.v, r.v))
                    ELSE NoParse

\* scan_once: one JSON value starting at position i
ScanOnce(t, i) ==
  CASE At(t, i) = QUOTE -> ScanString(t, i + 1, <<>>)
    [] At(t, i) = "{" ->
         IF At(t, SkipWs(t, i + 1)) = "}"
           THEN Parsed(VDict(<<>>), SkipWs(t, i + 1) + 1)
           ELSE ScanObject(t, SkipWs(t, i + 1), <<>>)
    [] At(t, i) = "[" ->
         IF At(t, SkipWs(t, i + 1)) = "]"
           THEN Parsed(VList(<<>>), SkipWs(t, i + 1) + 1)
           ELSE ScanArray(t, SkipWs(t, i + 1), <<>>)
    [] At(t, i) = "null" -> Parsed(VNone, i + 1)
    [] At(t, i) = "true" -> Parsed(VBool(TRUE), i + 1)
    [] At(t, i) = "false" -> Parsed(VBool(FALSE), i + 1)
    [] OTHER -> ScanNumber(t, i)

\* the end of json.loads: after the value r only whitespace may follow
LoadsEnd(t, r) == IF r.ok /\ SkipWs(t, r.n) = Len(t) + 1 THEN r ELSE NoParse

\* json.loads(t): ok = FALSE stands for JSONDecodeError
Loads(t) == LoadsEnd(t, ScanOnce(t, SkipWs(t, 1)))

----------------------------------------------------------------------------
(* Python dict and list helpers; a key is a value, items are <<key, value>> *)

HasKey(kv, k) == \E n \in 1..Len(kv) : kv[n][1] = k
Get(kv, k) == kv[CHOOSE n \in 1..Len(kv) : kv[n][1] = k][2]
KeySet(kv) == {kv[n][1] : n \in 1..Len(kv)}
KeySeq(kv) == [n \in 1..Len(kv) |-> kv[n][1]]
RemoveAt(q, n) == SubSeq(q, 1, n - 1) \o SubSeq(q, n + 1, Len(q))
\* del kv[k], for a key that is present
Del(kv, k) == RemoveAt(kv, CHOOSE n \in 1..Len(kv) : kv[n][1] = k)

AnyErr(q) == \E n \in 1..Len(q) : IsErr(q[n])
FirstErr(q) == q[CHOOSE n \in 1..Len(q) : IsErr(q[n]) /\ \A m \in 1..(n - 1) : ~IsErr(q[m])]

RECURSIVE SortByKey(_)
\* sorted(items) of a mapping whose keys are str
SortByKey(kv) ==
  IF kv = <<>> THEN <<>>
  ELSE LET n == CHOOSE a \in 1..Len(kv) :
                  \A c \in 1..Len(kv) : c = a \/ StrLess(kv[a][1].s, kv[c][1].s)
       IN  <<kv[n]>> \o SortByKey(RemoveAt(kv, n))

RECURSIVE SortStrs(_)
\* sorted(S) of a set of str
SortStrs(S) ==
  IF S = {} THEN <<>>
  ELSE LET a == CHOOSE x \in S : \A y \in S : y = x \/ StrLess(x, y)
       IN  <<a>> \o SortStrs(S \ {a})

RECURSIVE Join(_, _)
\* sep.join(q) of a sequence of str
Join(q, sep) ==
  IF q = <<>> THEN <<>>
  ELSE IF Len(q) = 1 THEN q[1]
  ELSE q[1] \o sep \o Join(Tail(q), sep)

RECURSIVE Split(_, _, _)
\* s.split(sep) for a one-glyph separator; cur is the piece being read
Split(s, sep, cur) ==
  IF s = <<>> THEN <<cur>>
  ELSE IF s[1] = sep THEN <<cur>> \o Split(Tail(s), sep, <<>>)
  ELSE Split(Tail(s), sep, Append(cur, s[1]))

\* prefix and substring tests on str
StartsWith(s, p) == Len(s) >= Len(p) /\ SubSeq(s, 1, Len(p)) = p
Contains(s, p) == \E n \in 1..(Len(s) - Len(p) + 1) : SubSeq(s, n, n + Len(p) - 1) = p

----------------------------------------------------------------------------
(* Models, flows and the installed packages *)

NL == "\n"

\* an estimator: an object with fit, get_params and set_params. params is
\* get_params(deep=False); module is __module__ and cls is __class__.__name__
VModel(module, cls, params) ==
  [t |-> "model", module |-> module, cls |-> cls, params |-> params]

\* _format_external_version
FormatExternalVersion(name, version) == name \o <<"=", "=">> \o version

RECURSIVE FlattenAll(_)
\* flatten_all: the leaves of arbitrarily nested lists and tuples
FlattenAll(q) ==
  IF q = <<>> THEN <<>>
  ELSE (IF IsSeq(q[1]) THEN FlattenAll(q[1].e) ELSE <<q[1]>>)
       \o FlattenAll(Tail(q))

\* isinstance(el, SIMPLE_TYPES): bool, int, float, str; None is not one
IsSimpleType(v) == v.t \in {"bool", "int", "str"}

\* hasattr(rval, '__len__') and len(rval) == 0
HasZeroLen(v) ==
  \/ v.t = "str" /\ v.s = <<>>
  \/ IsSeq(v) /\ v.e = <<>>
  \/ v.t = "dict" /\ v.kv = <<>>

\* the OrderedDict that stands for a component in a parameter value
ComponentReference(key, step_name, hasArg, arg) ==
  VODict(<<
    <<W("oml-python:serialized_object"), W("component_reference")>>,
    <<W("value"),
      VODict(<<<<W("key"), key>>, <<W("step_name"), step_name>>>>
             \o (IF hasArg THEN <<<<W("argument_1"), arg>>>> ELSE <<>>))>> >>)

MetaInfo == VODict(<<<<W("description"), VNone>>, <<W("data_type"), VNone>>>>)

\* no check at all: no sub-component is ever found twice
NeverMultiple(sub_components) == FALSE

RECURSIVE CheckMultipleFlat(_, _)
\* the walk over the direct sub-components only, visitee.components left out
CheckMultipleFlat(stack, known) ==
  IF stack = <<>> THEN FALSE
  ELSE IF stack[Len(stack)].name \in known THEN TRUE
  ELSE CheckMultipleFlat(SubSeq(stack, 1, Len(stack) - 1),
                         known \cup {stack[Len(stack)].name})

RECURSIVE CheckMultipleWalk(_, _)
\* the loop of _check_multiple_occurence_of_component_in_flow: TRUE iff it
\* raises. stack is to_visit_stack (popped at its end), known is
\* known_sub_components
CheckMultipleWalk(stack, known) ==
  IF stack = <<>> THEN FALSE
  ELSE LET visitee == stack[Len(stack)]
           rest == SubSeq(stack, 1, Len(stack) - 1)
       IN  IF visitee.name \in known THEN TRUE
           ELSE CheckMultipleWalk(
                  rest \o [n \in 1..Len(visitee.components) |-> visitee.components[n][2]],
                  known \cup {visitee.name})

CheckMultipleOccurence(sub_components) ==
  CheckMultipleWalk([n \in 1..Len(sub_components) |-> sub_components[n][2]], {})

RECURSIVE UnkeyedNames(_, _)
\* every component is named without its identifier
UnkeyedNames(subcomponents, explicit) ==
  IF subcomponents = <<>> THEN <<>>
  ELSE <<",">> \o subcomponents[1][2].name \o UnkeyedNames(Tail(subcomponents), explicit)

RECURSIVE SubComponentsNames(_, _)
\* the loop that builds sub_components_names in _serialize_model
SubComponentsNames(subcomponents, explicit) ==
  IF subcomponents = <<>> THEN <<>>
  ELSE LET key == subcomponents[1][1]
           sub == subcomponents[1][2]
       IN  (IF key \in explicit
              THEN <<",">> \o key.s \o <<"=">> \o sub.name
              ELSE <<",">> \o sub.name)
           \o SubComponentsNames(Tail(subcomponents), explicit)

\* the sub-components give no entry
NoVersionUnion(subs) == {}

RECURSIVE VersionUnion(_)
\* the entries of the external_version of every sub-component
VersionUnion(subs) ==
  IF subs = <<>> THEN {}
  ELSE {x : x \in {Split(subs[1][2].external_version, ",", <<>>)[n] :
                     n \in 1..Len(Split(subs[1][2].external_version, ",", <<>>))}}
       \cup VersionUnion(Tail(subs))

\* _get_external_version_string; installed maps a package to its __version__
GetExternalVersionString(model, sub_components, installed) ==
  LET model_package_name == Split(model.module, ".", <<>>)[1]
      external_version ==
        FormatExternalVersion(model_package_name, installed[model_package_name[1]])
      openml_version == FormatExternalVersion(<<"openml">>, installed["openml"])
  IN  Join(SortStrs({external_version, openml_version} \cup VersionUnion(sub_components)),
           <<",">>)

\* the dependencies of every flow _serialize_model builds
FlowDependencies(installed) ==
  Join(<<FormatExternalVersion(<<"sklearn">>, installed["sklearn"]),
         <<"numpy", ">", "=", "1", ".", "6", ".", "1">>,
         <<"scipy", ">", "=", "0", ".", "9">>>>, <<NL>>)

----------------------------------------------------------------------------
(* Serialization: sklearn_to_flow, _serialize_model,                      *)
(* _extract_information_from_model                                         *)

\* the four "global" states of _extract_information_from_model, and the
\* exception that ended it (VNone while it runs)
EmptyExtract ==
  [parameters |-> <<>>, parameters_meta_info |-> <<>>, sub_components |-> <<>>,
   sub_components_explicit |-> {}, err |-> VNone]

\* isinstance(rval, (list, tuple)) and len(rval) > 0 and
\* isinstance(rval[0], (list, tuple)) and every entry of the type of rval[0]
IsNonEmptyListOfListsWithSameType(rval) ==
  /\ IsSeq(rval)
  /\ Len(rval.e) > 0
  /\ IsSeq(rval.e[1])
  /\ \A n \in 1..Len(rval.e) : rval.e[n].t = rval.e[1].t

NestedListOfSimpleTypes(rval) ==
  /\ IsNonEmptyListOfListsWithSameType(rval)
  /\ \A n \in 1..Len(FlattenAll(rval.e)) : IsSimpleType(FlattenAll(rval.e)[n])

\* one pass of the loop over the entries of a step sequence. acc holds
\* parameter_value, sub_components, sub_components_explicit and the exception
StepEntry(entry, reserved_keywords, acc) ==
  IF Len(entry.e) < 2 THEN [acc EXCEPT !.err = Raise("IndexError")]
  ELSE
    LET identifier == entry.e[1]
        sub_component == entry.e[2]
    IN  IF Len(entry.e) > 3 THEN [acc EXCEPT !.err = Raise("ValueError")]
        ELSE IF sub_component.t \notin {"flow", "none"}
          THEN [acc EXCEPT !.err = Raise("TypeError")]
        ELSE IF identifier.t \in {"list", "dict"}
          THEN [acc EXCEPT !.err = Raise("TypeError")]
        ELSE IF identifier \in reserved_keywords
          THEN [acc EXCEPT !.err = Raise("PyOpenMLError")]
        ELSE IF sub_component.t = "none"
          THEN [acc EXCEPT !.parameter_value =
                  Append(@, IF entry.t = "tuple"
                              THEN VTuple(<<identifier, VNone>>)
                              ELSE VList(<<identifier, VNone>>))]
        ELSE [acc EXCEPT
                !.sub_components_explicit = @ \cup {identifier},
                !.sub_components = DictPut(@, identifier, sub_component),
                !.parameter_value =
                   Append(@, ComponentReference(identifier, identifier,
                                                Len(entry.e) = 3,
                                                entry.e[Len(entry.e)]))]

RECURSIVE StepLoop(_, _, _)
StepLoop(entries, reserved_keywords, acc) ==
  IF entries = <<>> \/ IsErr(acc.err) THEN acc
  ELSE StepLoop(Tail(entries), reserved_keywords,
                StepEntry(entries[1], reserved_keywords, acc))

\* no name is reserved
NoReservedKeywords(model) == {}

\* reserved_keywords = set(model.get_params(deep=False).keys())
ReservedKeywords(model) == KeySet(model.params)

\* the branch of a step sequence: parameters[k] = json.dumps(parameter_value)
ExtractStepSequence(model, acc, k, rval) ==
  LET r == StepLoop(rval.e, ReservedKeywords(model),
                    [parameter_value |-> <<>>,
                     sub_components |-> acc.sub_components,
                     sub_components_explicit |-> acc.sub_components_explicit,
                     err |-> VNone])
      parameter_value == IF rval.t = "tuple" THEN VTuple(r.parameter_value)
                         ELSE VList(r.parameter_value)
  IN  IF IsErr(r.err) THEN [acc EXCEPT !.err = r.err]
      ELSE IF ~JsonSerializable(parameter_value)
        THEN [acc EXCEPT !.err = Raise("TypeError")]
      ELSE [acc EXCEPT
              !.sub_components = r.sub_components,
              !.sub_components_explicit = r.sub_components_explicit,
              !.parameters = DictPut(@, k, VStr(Dumps(parameter_value)))]

\* the sub-model is a component only, parameters keeps no reference to it
ComponentOnly(acc, k, rval) ==
  [acc EXCEPT
     !.sub_components = DictPut(@, k, rval),
     !.sub_components_explicit = @ \cup {k}]

\* the branch of a single nested model
ExtractSubcomponent(acc, k, rval) ==
  [acc EXCEPT
     !.sub_components = DictPut(@, k, rval),
     !.sub_components_explicit = @ \cup {k},
     !.parameters = DictPut(@, k, VStr(Dumps(ComponentReference(k, VNone, FALSE, VNone))))]

\* every value is stored as its JSON text, an empty one too
AlwaysJson(acc, k, rval) ==
  IF ~JsonSerializable(rval) THEN [acc EXCEPT !.err = Raise("TypeError")]
  ELSE [acc EXCEPT !.parameters = DictPut(@, k, VStr(Dumps(rval)))]

\* the branch of a regular hyperparameter
ExtractHyperparameter(acc, k, rval) ==
  IF HasZeroLen(rval) THEN [acc EXCEPT !.parameters = DictPut(@, k, VNone)]
  ELSE IF ~JsonSerializable(rval) THEN [acc EXCEPT !.err = Raise("TypeError")]
  ELSE [acc EXCEPT !.parameters = DictPut(@, k, VStr(Dumps(rval)))]

\* the body of the loop of _extract_information_from_model, rval encoded
\* (an exception of sklearn_to_flow ends the loop)
PutMetaInfo(a, k) ==
  IF IsErr(a.err) THEN a
  ELSE [a EXCEPT !.parameters_meta_info = DictPut(@, k, MetaInfo)]

ExtractParameter(model, acc, k, rval) ==
  IF IsErr(rval) THEN [acc EXCEPT !.err = rval]
  ELSE PutMetaInfo(IF IsNonEmptyListOfListsWithSameType(rval)
                      /\ ~NestedListOfSimpleTypes(rval)
                     THEN ExtractStepSequence(model, acc, k, rval)
                   ELSE IF rval.t = "flow" THEN ExtractSubcomponent(acc, k, rval)
                   ELSE ExtractHyperparameter(acc, k, rval),
                   k)

\* _serialize_model from the duplicate check on; x is what
\* _extract_information_from_model returned
BuildFlow(model, installed, x) ==
  LET class_name == model.module \o <<".">> \o model.cls
      sub_components_names ==
        SubComponentsNames(x.sub_components, x.sub_components_explicit)
  IN  IF IsErr(x.err) THEN x.err
      ELSE IF CheckMultipleOccurence(x.sub_components) THEN Raise("ValueError")
      ELSE IF \E n \in 1..Len(x.sub_components) : x.sub_components[n][1].t # "str"
        THEN Raise("TypeError")
      ELSE IF Split(model.module, ".", <<>>)[1][1] \notin DOMAIN installed
        THEN Raise("ImportError")
      ELSE [t |-> "flow",
            name |-> IF sub_components_names # <<>>
                       THEN class_name \o <<"(">> \o Tail(sub_components_names) \o <<")">>
                       ELSE class_name,
            class_name |-> class_name,
            parameters |-> x.parameters,
            parameters_meta_info |-> x.parameters_meta_info,
            components |-> x.sub_components,
            external_version |->
              GetExternalVersionString(model, x.sub_components, installed),
            dependencies |-> FlowDependencies(installed),
            flow_id |-> VNone]

\* a type object, a frozen distribution, a plain function, a cross-validator:
\* a type is known by its identity, a function by module.name, a
\* distribution by the class of its dist, a cross-validator by its class and
\* the attributes that its __init__ names
VType(id) == [t |-> "type", id |-> id]
VRv(dist, a, b, args, kwds) ==
  [t |-> "rv", dist |-> dist, a |-> a, b |-> b, args |-> args, kwds |-> kwds]
VFunction(name) == [t |-> "function", name |-> name]
VCv(name, attrs) == [t |-> "cv", name |-> name, attrs |-> attrs]

\* the items of the dict literal of serialize_type: np.float is float and
\* np.int is int, so the later item replaces the value of the earlier one
TypeMappingItems ==
  <<<<"float", W("float")>>, <<"float", W("np.float")>>,
    <<"float32", W("np.float32")>>, <<"float64", W("np.float64")>>,
    <<"int", W("int")>>, <<"int", W("np.int")>>,
    <<"int32", W("np.int32")>>, <<"int64", W("np.int64")>>>>

\* mapping[o] of a dict built from items: the last item of the key
LastOf(items, k) ==
  items[CHOOSE n \in 1..Len(items) :
          items[n][1] = k /\ \A m \in (n + 1)..Len(items) : items[m][1] # k][2]

SerializedObject(serialized_object, value) ==
  VODict(<<<<W("oml-python:serialized_object"), W(serialized_object)>>,
           <<W("value"), value>>>>)

\* serialize_type
SerializeType(o) ==
  IF HasKey(TypeMappingItems, o.id)
    THEN SerializedObject("type", LastOf(TypeMappingItems, o.id))
    ELSE Raise("KeyError")

\* serialize_rv_frozen
SerializeRvFrozen(o) ==
  SerializedObject("rv_frozen",
         VODict(<<<<W("dist"), VStr(o.dist)>>, <<W("a"), o.a>>, <<W("b"), o.b>>,
                  <<W("args"), o.args>>, <<W("kwds"), o.kwds>>>>))

\* serialize_function
SerializeFunction(o) == SerializedObject("function", VStr(o.name))

\* parameters[key] of _serialize_cross_validator
CvParameter(value) ==
  IF HasZeroLen(value) THEN VNone
  ELSE IF ~JsonSerializable(value) THEN Raise("TypeError")
  ELSE VStr(Dumps(value))

\* _serialize_cross_validator: the loop over the sorted names of __init__
SerializeCrossValidator(o) ==
  LET args == SortByKey(o.attrs)
      parameters == [n \in 1..Len(args) |-> <<args[n][1], CvParameter(args[n][2])>>]
  IN  IF \E n \in 1..Len(args) : IsErr(parameters[n][2])
        THEN Raise("TypeError")
        ELSE SerializedObject("cv_object",
                    VODict(<<<<W("name"), VStr(o.name)>>,
                             <<W("parameters"), VODict(parameters)>>>>))

RECURSIVE SklearnToFlow(_, _)
RECURSIVE SerializeModel(_, _)
RECURSIVE ExtractLoop(_, _, _, _)
RECURSIVE EncodeItems(_, _, _)

\* one pass of the loop of sklearn_to_flow over the items of a mapping:
\* rval[key] = value, value encoded
PutEncoded(rval, key, value) ==
  IF key.t # "str" THEN Raise("TypeError")
  ELSE IF IsErr(value) THEN value
  ELSE VODict(DictPut(rval.kv, key, value))

\* the loop of sklearn_to_flow over the items of a mapping
EncodeItems(items, installed, rval) ==
  IF items = <<>> \/ IsErr(rval) THEN rval
  ELSE EncodeItems(Tail(items), installed,
                   PutEncoded(rval, items[1][1], SklearnToFlow(items[1][2], installed)))

NotErr(v) == ~IsErr(v)
\* the elements that could be encoded, the others left out
EncodedPart(o, rval) == [o EXCEPT !.e = SelectSeq(rval, NotErr)]

\* the list or tuple of the encoded elements, or the first exception
EncodedSeq(o, rval) == IF AnyErr(rval) THEN FirstErr(rval) ELSE [o EXCEPT !.e = rval]

\* sklearn_to_flow(o); installed is the environment the versions are read from
SklearnToFlow(o, installed) ==
  CASE o.t = "model" -> SerializeModel(o, installed)
    [] IsSeq(o) ->
         EncodedSeq(o, [n \in 1..Len(o.e) |-> SklearnToFlow(o.e[n], installed)])
    [] o.t \in {"bool", "int", "str", "none"} -> o
    [] o.t = "dict" ->
         \* a dict with a key that is no str raises TypeError in sorted() or
         \* at its first item, before any value is encoded
         IF ~o.ordered /\ \E n \in 1..Len(o.kv) : o.kv[n][1].t # "str"
           THEN Raise("TypeError")
           ELSE EncodeItems(IF o.ordered THEN o.kv ELSE SortByKey(o.kv), installed,
                            VODict(<<>>))
    [] o.t = "type" -> SerializeType(o)
    [] o.t = "rv" -> SerializeRvFrozen(o)
    [] o.t = "function" -> SerializeFunction(o)
    [] o.t = "cv" -> SerializeCrossValidator(o)
    [] OTHER -> Raise("TypeError")

\* the loop of _extract_information_from_model over the sorted parameters
ExtractLoop(model, installed, items, acc) ==
  IF items = <<>> \/ IsErr(acc.err) THEN acc
  ELSE ExtractLoop(model, installed, Tail(items),
                   ExtractParameter(model, acc, items[1][1],
                                    SklearnToFlow(items[1][2], installed)))

ExtractInformationFromModel(model, installed) ==
  ExtractLoop(model, installed, SortByKey(model.params), EmptyExtract)

\* _serialize_model
SerializeModel(model, installed) ==
  BuildFlow(model, installed, ExtractInformationFromModel(model, installed))

----------------------------------------------------------------------------
(* The dependency checker: DEPENDENCIES_PATTERN, LooseVersion,             *)
(* _check_dependencies                                                     *)

\* a glyph that [\w\-] matches: a digit, a word of letters, "_" or "-"
IsNameGlyph(g) ==
  g \notin {SPACE, QUOTE, BSLASH, NL, "(", ")", ",", ".", ":", "=", ">", "@",
            "[", "]", "{", "}", "oml-python:serialized_object"}

RECURSIVE NameEnd(_, _)
\* the first position from i on that [\w\-] does not match
NameEnd(line, i) ==
  IF i <= Len(line) /\ IsNameGlyph(line[i]) THEN NameEnd(line, i + 1) ELSE i

RECURSIVE DigitsEnd(_, _)
DigitsEnd(line, i) ==
  IF i <= Len(line) /\ IsDigit(line[i]) THEN DigitsEnd(line, i + 1) ELSE i

RECURSIVE VersionMatches(_, _, _)
\* (\d+\.)?(\d+\.)?(\d+)?(dev)?[0-9]*$ from position i, groups counting
\* the (\d+\.) already taken
VersionMatches(line, i, groups) ==
  LET d == DigitsEnd(line, i)
  IN  IF d > i /\ At(line, d) = "." /\ groups < 2
        THEN VersionMatches(line, d + 1, groups + 1)
        ELSE LET e == IF At(line, d) = "dev" THEN DigitsEnd(line, d + 1) ELSE d
             IN  e = Len(line) + 1

\* DEPENDENCIES_PATTERN.match(line): the groups, or ok = FALSE for no match.
\* operation and version are <<>> where the optional group took no part
PatternMatch(line) ==
  LET n == NameEnd(line, 1)
      op == IF At(line, n) = "=" /\ At(line, n + 1) = "=" THEN <<"=", "=">>
            ELSE IF At(line, n) = ">" /\ At(line, n + 1) = "=" THEN <<">", "=">>
            ELSE IF At(line, n) = ">" THEN <<">">>
            ELSE <<>>
      v == n + Len(op)
  IN  IF n = 1 THEN [ok |-> FALSE]
      ELSE IF n = Len(line) + 1
        THEN [ok |-> TRUE, name |-> line, grouped |-> FALSE,
              operation |-> <<>>, version |-> <<>>]
      ELSE IF op # <<>> /\ VersionMatches(line, v, 0)
        THEN [ok |-> TRUE, name |-> SubSeq(line, 1, n - 1), grouped |-> TRUE,
              operation |-> op, version |-> SubSeq(line, v, Len(line))]
      ELSE [ok |-> FALSE]

RECURSIVE LooseParse(_)
\* LooseVersion.parse: the runs of digits as int, the words as str, no dots
LooseParse(v) ==
  IF v = <<>> THEN <<>>
  ELSE IF v[1] = "." THEN LooseParse(Tail(v))
  ELSE IF IsDigit(v[1])
    THEN LET d == ScanDigits(v, 1, 0)
         IN  <<VInt(d.v)>> \o LooseParse(SubSeq(v, d.n, Len(v)))
  ELSE <<W(v[1])>> \o LooseParse(Tail(v))

\* a component of a version as text
TextOf(x) == IF x.t = "int" THEN IntText(x.i) ELSE x.s

RECURSIVE TextCmp(_, _)
\* the order of two versions with every component compared as text, "10"
\* before "6": the order that LooseVersion does not use
TextCmp(a, b) ==
  IF a = <<>> /\ b = <<>> THEN "eq"
  ELSE IF a = <<>> THEN "lt"
  ELSE IF b = <<>> THEN "gt"
  ELSE IF a[1] = b[1] THEN TextCmp(Tail(a), Tail(b))
  ELSE IF StrLess(TextOf(a[1]), TextOf(b[1])) THEN "lt"
  ELSE "gt"

RECURSIVE ListCmp(_, _)
\* the order of two lists of int and str as Python compares lists: "lt",
\* "eq", "gt", or "TypeError" where an int meets a str
ListCmp(a, b) ==
  IF a = <<>> /\ b = <<>> THEN "eq"
  ELSE IF a = <<>> THEN "lt"
  ELSE IF b = <<>> THEN "gt"
  ELSE IF a[1] = b[1] THEN ListCmp(Tail(a), Tail(b))
  ELSE IF a[1].t # b[1].t THEN "TypeError"
  ELSE IF a[1].t = "int" THEN (IF a[1].i < b[1].i THEN "lt" ELSE "gt")
  ELSE (IF StrLess(a[1].s, b[1].s) THEN "lt" ELSE "gt")

\* check = installed_version <operation> required_version, c the order of the
\* two versions
CheckOperation(operation, c) ==
  LET check == CASE operation = <<"=", "=">> -> c = "eq"
                 [] operation = <<">">> -> c = "gt"
                 [] OTHER -> c \in {"gt", "eq"}
  IN  IF c = "TypeError" THEN Raise("TypeError")
      ELSE IF ~check THEN Raise("ValueError")
      ELSE VNone

\* the body of the loop of _check_dependencies after the match m
CheckMatch(m, installed) ==
  IF ~m.ok THEN Raise("ValueError")
  ELSE IF Len(m.name) # 1 \/ m.name[1] \notin DOMAIN installed
    THEN Raise("ImportError")
  ELSE IF ~m.grouped THEN Raise("NotImplementedError")
  ELSE IF m.version = <<>> \/ installed[m.name[1]] = <<>>
    \* LooseVersion('') has no version attribute to compare
    THEN Raise("AttributeError")
  ELSE CheckOperation(m.operation,
                      ListCmp(LooseParse(installed[m.name[1]]), LooseParse(m.version)))

\* the check of one line against the installed packages: VNone, or the
\* exception raised
CheckDependency(line, installed) == CheckMatch(PatternMatch(line), installed)

RECURSIVE CheckLines(_, _, _)
\* the loop over the lines; r is the outcome of the lines before
CheckLines(lines, installed, r) ==
  IF lines = <<>> \/ IsErr(r) THEN r
  ELSE CheckLines(Tail(lines), installed, CheckDependency(lines[1], installed))

\* _check_dependencies(dependencies): VNone, or the exception raised
CheckDependencies(dependencies, installed) ==
  IF dependencies = <<>> THEN VNone
  ELSE CheckLines(Split(dependencies, NL, <<>>), installed, VNone)

----------------------------------------------------------------------------
(* The classes that importlib can resolve, with the signature of __init__  *)

SK == <<"sklearn">>

\* args are the arguments after self; defaults holds the default of each
\* default-valued argument (the last ones of args); composite is the
\* parameter whose steps get_params lists by name, None for a class that is
\* no composition
ClassTable ==
  <<[class_name |-> <<"sklearn", ".", "A">>, args |-> <<W("alpha")>>,
     defaults |-> <<<<W("alpha"), VInt(1)>>>>, composite |-> VNone],
    [class_name |-> <<"sklearn", ".", "B">>, args |-> <<>>, defaults |-> <<>>,
     composite |-> VNone],
    [class_name |-> <<"sklearn", ".", "C">>, args |-> <<W("a"), W("c")>>,
     defaults |-> <<<<W("c"), VNone>>>>, composite |-> VNone],
    [class_name |-> <<"sklearn", ".", "Pipe">>, args |-> <<W("steps"), W("memory")>>,
     defaults |-> <<<<W("memory"), VNone>>>>, composite |-> W("steps")],
    [class_name |-> <<"sklearn", ".", "Ens">>, args |-> <<W("base_estimator")>>,
     defaults |-> <<<<W("base_estimator"), VNone>>>>, composite |-> VNone],
    [class_name |-> <<"mypkg", ".", "A">>, args |-> <<W("alpha")>>,
     defaults |-> <<<<W("alpha"), VInt(1)>>>>, composite |-> VNone],
    [class_name |-> <<"mypkg", ".", "Stack">>, args |-> <<W("steps")>>,
     defaults |-> <<<<W("steps"), VNone>>>>, composite |-> W("steps")],
    [class_name |-> <<"sklearn", ".", "R">>, args |-> <<W("cv"), W("random_state")>>,
     defaults |-> <<<<W("cv"), VNone>>, <<W("random_state"), VNone>>>>,
     composite |-> VNone]>>

IsClass(class_name) == \E n \in 1..Len(ClassTable) : ClassTable[n].class_name = class_name
ClassOf(class_name) ==
  ClassTable[CHOOSE n \in 1..Len(ClassTable) : ClassTable[n].class_name = class_name]

\* the position of the last "." of a str, 0 if it has none
LastDot(s) ==
  IF \E n \in 1..Len(s) : s[n] = "."
    THEN CHOOSE n \in 1..Len(s) : s[n] = "." /\ \A m \in (n + 1)..Len(s) : s[m] # "."
    ELSE 0

\* _get_fn_arguments_with_defaults(fn)[0], in the order of the dict it builds:
\* zip(reversed(signature.args), reversed(signature.defaults))
GetFnArgumentsWithDefaults(class) ==
  [n \in 1..Len(class.defaults) |-> class.defaults[Len(class.defaults) + 1 - n]]

RECURSIVE DropDefaults(_, _, _)
\* the loop over param_defaults: KeyError where a default-valued argument that
\* is no component is not in parameter_dict
DropDefaults(param_defaults, component_keys, parameter_dict) ==
  IF param_defaults = <<>> THEN VODict(parameter_dict)
  ELSE LET param == param_defaults[1][1]
       IN  IF param \in component_keys
             THEN DropDefaults(Tail(param_defaults), component_keys, parameter_dict)
           ELSE IF ~HasKey(parameter_dict, param) THEN Raise("KeyError")
           ELSE DropDefaults(Tail(param_defaults), component_keys, Del(parameter_dict, param))

\* model_class(**kwargs): TypeError on an unexpected keyword and on a missing
\* required argument
Construct(class, kwargs) ==
  IF \E n \in 1..Len(kwargs) : \A a \in 1..Len(class.args) : class.args[a] # kwargs[n][1]
    THEN Raise("TypeError")
  ELSE IF \E a \in 1..Len(class.args) :
            ~HasKey(kwargs, class.args[a]) /\ ~HasKey(class.defaults, class.args[a])
    THEN Raise("TypeError")
  ELSE VModel(SubSeq(class.class_name, 1, LastDot(class.class_name) - 1),
              SubSeq(class.class_name, LastDot(class.class_name) + 1, Len(class.class_name)),
              [a \in 1..Len(class.args) |->
                 <<class.args[a],
                   IF HasKey(kwargs, class.args[a]) THEN Get(kwargs, class.args[a])
                   ELSE Get(class.defaults, class.args[a])>>])

\* the end of _deserialize_model: the class is imported, the defaults are
\* dropped in keep-defaults mode, the model is constructed
ImportAndConstruct(model_name, keep_defaults, component_keys, parameter_dict) ==
  IF LastDot(model_name) = 0 THEN Raise("ImportError")
  ELSE IF ~\E n \in 1..Len(ClassTable) :
             SubSeq(ClassTable[n].class_name, 1, LastDot(ClassTable[n].class_name) - 1)
               = SubSeq(model_name, 1, LastDot(model_name) - 1)
    THEN Raise("ImportError")
  ELSE IF ~IsClass(model_name) THEN Raise("AttributeError")
  ELSE LET class == ClassOf(model_name)
           kwargs == IF keep_defaults
                       THEN DropDefaults(GetFnArgumentsWithDefaults(class),
                                         component_keys, parameter_dict)
                       ELSE VODict(parameter_dict)
       IN  IF IsErr(kwargs) THEN kwargs ELSE Construct(class, kwargs.kv)

\* what getattr finds in the importable modules besides the model classes:
\* distributions, functions and cross-validators; args are the arguments of
\* the callable, defaults those of the default-valued ones
AttributeTable ==
  <<[t |-> "attribute", name |-> <<"scipy", ".", "uniform_gen">>, kind |-> "dist",
     args |-> <<W("loc"), W("scale")>>, defaults |-> <<>>],
    [t |-> "attribute", name |-> <<"mypkg", ".", "score">>, kind |-> "function",
     args |-> <<W("y")>>, defaults |-> <<>>],
    [t |-> "attribute", name |-> <<"sklearn", ".", "KFold">>, kind |-> "cv",
     args |-> <<W("n_splits"), W("random_state"), W("shuffle")>>,
     defaults |-> <<<<W("n_splits"), VInt(3)>>, <<W("random_state"), VNone>>,
                    <<W("shuffle"), VBool(FALSE)>>>>],
    [t |-> "attribute", name |-> <<"sklearn", ".", "LeaveOneOut">>, kind |-> "cv",
     args |-> <<>>, defaults |-> <<>>]>>

\* the part of a dotted name before its last "."
ModuleOf(name) == SubSeq(name, 1, LastDot(name) - 1)

\* importlib.import_module(module) finds the module
Importable(module) ==
  \/ \E n \in 1..Len(ClassTable) : ModuleOf(ClassTable[n].class_name) = module
  \/ \E n \in 1..Len(AttributeTable) : ModuleOf(AttributeTable[n].name) = module

\* module_name = name.rsplit('.', 1), then
\* getattr(importlib.import_module(module_name[0]), module_name[1])
ImportAttribute(name) ==
  IF LastDot(name) = 0
    THEN IF Importable(name) THEN Raise("IndexError") ELSE Raise("ImportError")
  ELSE IF ModuleOf(name) = <<>> THEN Raise("ValueError")
  ELSE IF ~Importable(ModuleOf(name)) THEN Raise("ImportError")
  ELSE IF \E n \in 1..Len(AttributeTable) : AttributeTable[n].name = name
    THEN AttributeTable[CHOOSE n \in 1..Len(AttributeTable) : AttributeTable[n].name = name]
  ELSE IF IsClass(name)
    THEN [t |-> "attribute", name |-> name, kind |-> "class",
          args |-> ClassOf(name).args, defaults |-> ClassOf(name).defaults]
  ELSE Raise("AttributeError")

\* the items of the dict of deserialize_type
TypeNames ==
  <<<<W("float"), "float">>, <<W("np.float"), "float">>,
    <<W("np.float32"), "float32">>, <<W("np.float64"), "float64">>,
    <<W("int"), "int">>, <<W("np.int"), "int">>,
    <<W("np.int32"), "int32">>, <<W("np.int64"), "int64">>>>

\* deserialize_type: mapping[o] hashes o
DeserializeType(o) ==
  IF o.t \in {"list", "dict"} THEN Raise("TypeError")
  ELSE IF HasKey(TypeNames, o) THEN VType(Get(TypeNames, o))
  ELSE Raise("KeyError")

\* tuple(args) of a call f(*args)
Starred(args) ==
  CASE IsSeq(args) -> VTuple(args.e)
    [] args.t = "str" -> VTuple([n \in 1..Len(args.s) |-> W(args.s[n])])
    [] args.t = "dict" -> VTuple([n \in 1..Len(args.kv) |-> args.kv[n][1]])
    [] OTHER -> Raise("TypeError")

\* the call f(*args, **kwds) binds its arguments: TypeError on an argument
\* that is no iterable or no mapping, on too many positional arguments, on an
\* unexpected keyword and on an argument given twice
BindsArguments(f, args, kwds) ==
  /\ ~IsErr(args)
  /\ kwds.t = "dict"
  /\ Len(args.e) <= Len(f.args)
  /\ \A n \in 1..Len(kwds.kv) :
        \E a \in (Len(args.e) + 1)..Len(f.args) : f.args[a] = kwds.kv[n][1]

\* what deserialize_rv_frozen returns or raises, and whether it warned
RvResult(v, warned) == [v |-> v, warned |-> warned]

\* deserialize_rv_frozen after the try: rv_class is what the import gave
RvFrozen(o, rv_class) ==
  IF IsErr(rv_class)
    THEN IF rv_class.exc = "AttributeError" THEN RvResult(VNone, TRUE)
         ELSE RvResult(rv_class, FALSE)
  ELSE IF rv_class.kind # "dist"
    \* rv_class() is no distribution
    THEN RvResult(Raise(IF rv_class.kind = "function" THEN "TypeError"
                        ELSE "AttributeError"), FALSE)
  ELSE IF ~BindsArguments(rv_class, Starred(Get(o.kv, W("args"))), Get(o.kv, W("kwds")))
    THEN RvResult(Raise("TypeError"), FALSE)
  ELSE RvResult(VRv(rv_class.name, Get(o.kv, W("a")), Get(o.kv, W("b")),
                    Starred(Get(o.kv, W("args"))),
                    VDict(Get(o.kv, W("kwds")).kv)), FALSE)

\* deserialize_rv_frozen
DeserializeRvFrozen(o) ==
  IF o.t # "dict" THEN RvResult(Raise("TypeError"), FALSE)
  ELSE IF \E k \in {"args", "kwds", "a", "b", "dist"} : ~HasKey(o.kv, W(k))
    THEN RvResult(Raise("KeyError"), FALSE)
  ELSE IF Get(o.kv, W("dist")).t # "str" THEN RvResult(Raise("AttributeError"), FALSE)
  ELSE RvFrozen(o, ImportAttribute(Get(o.kv, W("dist")).s))

\* what getattr gave deserialize_function
FunctionHandle(attribute) ==
  IF IsErr(attribute) THEN attribute
  ELSE IF attribute.kind = "function" THEN VFunction(attribute.name)
  ELSE VType(attribute.name)

\* deserialize_function
DeserializeFunction(name) ==
  IF name.t # "str" THEN Raise("AttributeError")
  ELSE FunctionHandle(ImportAttribute(name.s))

\* model_class(**parameters) of _deserialize_cross_validator
ConstructCrossValidator(model_class, parameters) ==
  IF model_class.kind = "class" THEN Construct(ClassOf(model_class.name), parameters)
  ELSE IF ~BindsArguments(model_class, VTuple(<<>>), VDict(parameters))
    THEN Raise("TypeError")
  ELSE IF model_class.kind = "cv"
    THEN VCv(model_class.name,
             [a \in 1..Len(model_class.args) |->
                <<model_class.args[a],
                  IF HasKey(parameters, model_class.args[a])
                    THEN Get(parameters, model_class.args[a])
                    ELSE Get(model_class.defaults, model_class.args[a])>>])
  \* what a function returns, the instance of a distribution class
  ELSE Other

----------------------------------------------------------------------------
(* Deserialization: flow_to_sklearn, _deserialize_model.                   *)
(*                                                                         *)
(* The descriptor being deserialized is the store: a flow object is named  *)
(* by its path, the component keys from the root. A call of                *)
(* _deserialize_model is a frame; components_ is either the frame's own    *)
(* copy (ref = "copy", kept in pool) or the very dict of the flow at the   *)
(* frame's path (ref = "alias"). flow_to_sklearn threads s = [store, pool] *)
(* and is given c = [ref, path], ref = "none" for components=None.         *)

OML == W("oml-python:serialized_object")

NoPool == [ref |-> "none", path |-> <<>>]

RECURSIVE FlowAt(_, _)
FlowAt(store, path) ==
  IF path = <<>> THEN store ELSE FlowAt(Get(store.components, path[1]), Tail(path))

RECURSIVE DelAt(_, _, _)
\* the store after del d[key], d the components dict of the flow at path
DelAt(store, path, key) ==
  IF path = <<>> THEN [store EXCEPT !.components = Del(store.components, key)]
  ELSE [store EXCEPT !.components =
          [n \in 1..Len(store.components) |->
             IF store.components[n][1] = path[1]
               THEN <<path[1], DelAt(store.components[n][2], Tail(path), key)>>
               ELSE store.components[n]]]

\* the dict that components refers to
PoolKV(s, c) == IF c.ref = "alias" THEN FlowAt(s.store, c.path).components ELSE s.pool

\* the entry stays in components
PoolKeep(s, c, key) == s

\* del components[key]
PoolDelete(s, c, key) ==
  IF c.ref = "alias" THEN [s EXCEPT !.store = DelAt(s.store, c.path, key)]
  ELSE [s EXCEPT !.pool = Del(s.pool, key)]

\* components_ = components: the dict of the flow itself, no copy
AliasComponents(components) == [ref |-> "alias", pool |-> <<>>]

\* copy.copy(components): a new dict with the same items
CopyComponents(components) == [ref |-> "copy", pool |-> components]

\* every external_version goes through
AnyVersion(external_version) == TRUE

\* has the external_version an entry of the sklearn family
IsSklearnFlow(external_version) ==
  \/ StartsWith(external_version, <<"sklearn", "=", "=">>)
  \/ Contains(external_version, <<",", "sklearn", "=", "=">>)

NewFrame(path, keep_defaults) ==
  [path |-> path, keep |-> keep_defaults, pc |-> "deps", idx |-> 1,
   ref |-> "none", pool |-> <<>>, parameter_dict |-> <<>>, rval |-> VNone]

Done(fr, rval) == [fr EXCEPT !.pc = "done", !.rval = rval]

RECURSIVE FlowToSklearn(_, _, _, _, _)
RECURSIVE DecodeValue(_, _, _, _, _)
RECURSIVE DecodeSeq(_, _, _, _, _)
RECURSIVE DecodeItems(_, _, _, _, _)
RECURSIVE DecodeFlow(_, _, _, _)
RECURSIVE Step(_, _, _)
RECURSIVE Run(_, _, _)

\* the end of the branch of a component reference: r is what flow_to_sklearn
\* gave for components[key]
FoldReference(s, c, value, r) ==
  LET step_name == Get(value.kv, W("step_name"))
      key == Get(value.kv, W("key"))
      s1 == [s EXCEPT !.store = r.store]
  IN  IF IsErr(r.v) THEN [s |-> s1, v |-> r.v]
      ELSE [s |-> PoolDelete(s1, c, key),
            v |-> IF step_name.t = "none" THEN r.v
                  ELSE IF ~HasKey(value.kv, W("argument_1"))
                    THEN VTuple(<<step_name, r.v>>)
                  ELSE VTuple(<<step_name, r.v, Get(value.kv, W("argument_1"))>>)]

\* the branch of a component reference from value['step_name'] on: vr is what
\* flow_to_sklearn(value) gave
LookupReference(s, c, vr, keep, installed) ==
  IF IsErr(vr.v) THEN vr
  ELSE IF vr.v.t # "dict" THEN [s |-> s, v |-> Raise("TypeError")]
  ELSE IF ~HasKey(vr.v.kv, W("step_name")) \/ ~HasKey(vr.v.kv, W("key"))
    THEN [s |-> s, v |-> Raise("KeyError")]
  ELSE IF Get(vr.v.kv, W("key")).t \in {"list", "dict"}
    THEN [s |-> s, v |-> Raise("TypeError")]
  ELSE IF ~HasKey(PoolKV(s, c), Get(vr.v.kv, W("key")))
    THEN [s |-> s, v |-> Raise("KeyError")]
  ELSE FoldReference(s, c, vr.v,
                     DecodeFlow(s.store, Append(c.path, Get(vr.v.kv, W("key"))),
                                keep, installed))

\* the branch of a component reference; value is o['value']
DecodeComponentReference(s, c, value, keep, installed) ==
  IF c.ref = "none" THEN [s |-> s, v |-> Raise("AssertionError")]
  ELSE LookupReference(s, c, FlowToSklearn(s, NoPool, value, FALSE, installed),
                       keep, installed)

\* rval.append(r) unless an exception came
AppendDecoded(acc, r) ==
  IF IsErr(r.v) THEN r ELSE [s |-> r.s, v |-> VList(Append(acc.v.e, r.v))]

\* the list comprehension over the elements of a list or tuple; acc is the
\* state and the list so far
DecodeSeq(c, elements, keep, installed, acc) ==
  IF elements = <<>> \/ IsErr(acc.v) THEN acc
  ELSE DecodeSeq(c, Tail(elements), keep, installed,
                 AppendDecoded(acc, FlowToSklearn(acc.s, c, elements[1], keep, installed)))

\* if isinstance(o, tuple): rval = tuple(rval)
AsTypeOf(o, r) == IF IsErr(r.v) THEN r ELSE [s |-> r.s, v |-> [t |-> o.t, e |-> r.v.e]]

\* the item (kr, r) of the decoded key and value enters the OrderedDict
PutDecoded(acc, kr, r) ==
  IF IsErr(kr.v) THEN kr
  ELSE IF IsErr(r.v) THEN r
  ELSE IF kr.v.t \in {"list", "dict"} THEN [s |-> r.s, v |-> Raise("TypeError")]
  ELSE [s |-> r.s, v |-> VODict(DictPut(acc.v.kv, kr.v, r.v))]

\* the value of an item is decoded after its key
DecodeItem(c, item, keep, installed, acc, kr) ==
  PutDecoded(acc, kr, FlowToSklearn(kr.s, c, item[2], keep, installed))

\* OrderedDict((flow_to_sklearn(key), flow_to_sklearn(value)) for the sorted
\* items); every mapping that gets here has str keys
DecodeItems(c, items, keep, installed, acc) ==
  IF items = <<>> \/ IsErr(acc.v) THEN acc
  ELSE DecodeItems(c, Tail(items), keep, installed,
                   DecodeItem(c, items[1], keep, installed, acc,
                              FlowToSklearn(acc.s, c, items[1][1], keep, installed)))

\* o after the try of json.loads: r is what json.loads gave
JsonLoadsOr(o, r) == IF r.ok THEN r.v ELSE o

\* the loop of _deserialize_cross_validator:
\* parameters[parameter] = flow_to_sklearn(parameters[parameter])
DecodedCvParameters(s, parameters, installed) ==
  [n \in 1..Len(parameters) |->
     <<parameters[n][1],
       FlowToSklearn(s, NoPool, parameters[n][2], FALSE, installed).v>>]

\* the loop raises what its first failing call raised, else the class is
\* called with the decoded parameters
CrossValidatorOf(model_class, decoded) ==
  IF \E n \in 1..Len(decoded) : IsErr(decoded[n][2])
    THEN decoded[CHOOSE n \in 1..Len(decoded) :
                   IsErr(decoded[n][2]) /\ \A m \in 1..(n - 1) : ~IsErr(decoded[m][2])][2]
    ELSE ConstructCrossValidator(model_class, decoded)

\* the loop of _deserialize_cross_validator is reached and has a dict to
\* iterate over
HasCvParameters(value) ==
  /\ value.t = "dict"
  /\ HasKey(value.kv, W("name"))
  /\ HasKey(value.kv, W("parameters"))
  /\ Get(value.kv, W("name")).t = "str"
  /\ ~IsErr(ImportAttribute(Get(value.kv, W("name")).s))
  /\ Get(value.kv, W("parameters")).t = "dict"

\* _deserialize_cross_validator
DeserializeCrossValidator(s, value, installed) ==
  IF value.t # "dict" THEN Raise("TypeError")
  ELSE IF ~HasKey(value.kv, W("name")) \/ ~HasKey(value.kv, W("parameters"))
    THEN Raise("KeyError")
  ELSE IF Get(value.kv, W("name")).t # "str" THEN Raise("AttributeError")
  ELSE IF IsErr(ImportAttribute(Get(value.kv, W("name")).s))
    THEN ImportAttribute(Get(value.kv, W("name")).s)
  ELSE IF Get(value.kv, W("parameters")).t # "dict" THEN Raise("TypeError")
  ELSE CrossValidatorOf(ImportAttribute(Get(value.kv, W("name")).s),
                        DecodedCvParameters(s, Get(value.kv, W("parameters")).kv,
                                            installed))

\* the dict parameters after the loop: the decoded values are stored in it, up
\* to the first call that raised
StoredCvParameters(parameters, decoded) ==
  [n \in 1..Len(parameters) |->
     IF \A m \in 1..n : ~IsErr(decoded[m][2]) THEN decoded[n] ELSE parameters[n]]

\* o is the record of a cross-validator whose parameters the loop decodes
IsCvRecord(o) ==
  /\ o.t = "dict"
  /\ HasKey(o.kv, OML)
  /\ HasKey(o.kv, W("value"))
  /\ Get(o.kv, OML) = W("cv_object")
  /\ HasCvParameters(Get(o.kv, W("value")))

\* the record o of a cross-validator after flow_to_sklearn(o): parameters is
\* the dict of the record itself
CvRecordAfter(o, decoded) ==
  [o EXCEPT !.kv = DictPut(@, W("value"),
      [Get(o.kv, W("value")) EXCEPT !.kv = DictPut(@, W("parameters"),
          [Get(Get(o.kv, W("value")).kv, W("parameters")) EXCEPT
             !.kv = StoredCvParameters(@, decoded)])])]

\* the value flow_to_sklearn was given, after the call
AfterDecode(o, installed) ==
  IF IsCvRecord(o)
    THEN CvRecordAfter(o, DecodedCvParameters(
           [store |-> o, pool |-> <<>>],
           Get(Get(o.kv, W("value")).kv, W("parameters")).kv, installed))
    ELSE o

\* flow_to_sklearn from the test isinstance(o, dict) on, for an o that is no
\* flow of the store
DecodeValue(s, c, o, keep, installed) ==
  CASE o.t = "dict" ->
         IF HasKey(o.kv, OML)
           THEN IF ~HasKey(o.kv, W("value")) THEN [s |-> s, v |-> Raise("KeyError")]
                ELSE IF Get(o.kv, OML) = W("component_reference")
                  THEN DecodeComponentReference(s, c, Get(o.kv, W("value")),
                                                keep, installed)
                ELSE IF Get(o.kv, OML) = W("type")
                  THEN [s |-> s, v |-> DeserializeType(Get(o.kv, W("value")))]
                ELSE IF Get(o.kv, OML) = W("rv_frozen")
                  THEN [s |-> s, v |-> DeserializeRvFrozen(Get(o.kv, W("value"))).v]
                ELSE IF Get(o.kv, OML) = W("function")
                  THEN [s |-> s, v |-> DeserializeFunction(Get(o.kv, W("value")))]
                ELSE IF Get(o.kv, OML) = W("cv_object")
                  THEN [s |-> s, v |-> DeserializeCrossValidator(
                                         s, Get(o.kv, W("value")), installed)]
                ELSE [s |-> s, v |-> Raise("ValueError")]
           ELSE DecodeItems(c, SortByKey(o.kv), keep, installed,
                            [s |-> s, v |-> VODict(<<>>)])
    [] IsSeq(o) ->
         AsTypeOf(o, DecodeSeq(c, o.e, keep, installed, [s |-> s, v |-> VList(<<>>)]))
    [] o.t \in {"bool", "int", "str", "none"} -> [s |-> s, v |-> o]
    [] o.t = "flow" ->
         \* a flow inside a value is an object of its own
         [s |-> s, v |-> DecodeFlow(o, <<>>, keep, installed).v]
    [] OTHER -> [s |-> s, v |-> Raise("TypeError")]

\* flow_to_sklearn(o, components, initialize_with_defaults)
FlowToSklearn(s, c, o, keep, installed) ==
  DecodeValue(s, c, IF o.t = "str" THEN JsonLoadsOr(o, Loads(o.s)) ELSE o,
              keep, installed)

\* flow_to_sklearn(o) for the flow o at path: the version gate, then
\* _deserialize_model
DecodeFlow(store, path, keep, installed) ==
  IF ~IsSklearnFlow(FlowAt(store, path).external_version)
    THEN [store |-> store, v |-> Raise("ValueError")]
    ELSE Run(NewFrame(path, keep), store, installed)

\* the loops are entered whatever _check_dependencies gave
EnterUnchecked(fr, d, cp) == [fr EXCEPT !.pc = "params", !.ref = cp.ref, !.pool = cp.pool]

\* after _check_dependencies gave d: components_ = cp
EnterLoops(fr, d, cp) ==
  IF IsErr(d) THEN Done(fr, d)
  ELSE [fr EXCEPT !.pc = "params", !.ref = cp.ref, !.pool = cp.pool]

\* parameter_dict[name] = rval, r what flow_to_sklearn gave for the value
StoreParameter(fr, name, r) ==
  [store |-> r.s.store,
   fr |-> IF IsErr(r.v) THEN Done([fr EXCEPT !.pool = r.s.pool], r.v)
          ELSE [fr EXCEPT !.pool = r.s.pool, !.idx = fr.idx + 1,
                          !.parameter_dict = DictPut(@, name, r.v)]]

\* parameter_dict[name] = rval, r what flow_to_sklearn gave for the component
StoreComponent(fr, name, r) ==
  [store |-> r.store,
   fr |-> IF IsErr(r.v) THEN Done(fr, r.v)
          ELSE [fr EXCEPT !.idx = fr.idx + 1,
                          !.parameter_dict = DictPut(@, name, r.v)]]

\* one step of _deserialize_model: the dependency check and the copy of the
\* components; one pass of the loop over the parameters; one pass of the loop
\* over the components; the construction
Step(fr, store, installed) ==
  LET flow == FlowAt(store, fr.path)
  IN  CASE fr.pc = "deps" ->
             [store |-> store,
              fr |-> EnterLoops(fr, CheckDependencies(flow.dependencies, installed),
                                CopyComponents(flow.components))]
        [] fr.pc = "params" ->
             IF fr.idx > Len(flow.parameters)
               THEN [store |-> store, fr |-> [fr EXCEPT !.pc = "components", !.idx = 1]]
               ELSE StoreParameter(fr, flow.parameters[fr.idx][1],
                                   FlowToSklearn([store |-> store, pool |-> fr.pool],
                                                 [ref |-> fr.ref, path |-> fr.path],
                                                 flow.parameters[fr.idx][2],
                                                 fr.keep, installed))
        [] fr.pc = "components" ->
             IF fr.idx > Len(flow.components)
               THEN [store |-> store, fr |-> [fr EXCEPT !.pc = "construct"]]
             ELSE IF HasKey(fr.parameter_dict, flow.components[fr.idx][1])
                     \/ ~HasKey(PoolKV([store |-> store, pool |-> fr.pool],
                                        [ref |-> fr.ref, path |-> fr.path]),
                                 flow.components[fr.idx][1])
               THEN [store |-> store, fr |-> [fr EXCEPT !.idx = fr.idx + 1]]
             ELSE StoreComponent(fr, flow.components[fr.idx][1],
                                 DecodeFlow(store,
                                            Append(fr.path, flow.components[fr.idx][1]),
                                            FALSE, installed))
        [] fr.pc = "construct" ->
             [store |-> store,
              fr |-> Done(fr, ImportAndConstruct(flow.class_name, fr.keep,
                                                 KeySet(flow.components),
                                                 fr.parameter_dict))]

\* _deserialize_model from the frame r.fr to its end
RunOn(r, installed) == Run(r.fr, r.store, installed)

\* _deserialize_model run to its end
Run(fr, store, installed) ==
  IF fr.pc = "done" THEN [store |-> store, v |-> fr.rval]
  ELSE RunOn(Step(fr, store, installed), installed)

----------------------------------------------------------------------------
(* The parameter extractor: get_params of the live model and               *)
(* obtain_parameter_values                                                 *)

\* the items (key + '__' + k, val) of the parameters of a nested model
Prefixed(key, items) ==
  [n \in 1..Len(items) |-> <<VStr(key.s \o <<"__">> \o items[n][1].s), items[n][2]>>]

RECURSIVE UpdateAll(_, _)
\* out.update(items)
UpdateAll(out, items) ==
  IF items = <<>> THEN out
  ELSE UpdateAll(DictPut(out, items[1][1], items[1][2]), Tail(items))

\* out.update(the prefixed parameters deep of a nested model), an exception
\* of the nested get_params going through
UpdateDeep(out, key, deep) ==
  IF IsErr(out) THEN out
  ELSE IF IsErr(deep) THEN deep
  ELSE VODict(UpdateAll(out.kv, Prefixed(key, deep.kv)))

\* out[key] = value
PutParam(out, key, value) ==
  IF IsErr(out) THEN out ELSE VODict(DictPut(out.kv, key, value))

\* the steps of a composition as get_params reads them: (name, estimator)
\* pairs with a name that is a str
WellFormedSteps(steps) ==
  /\ IsSeq(steps)
  /\ \A n \in 1..Len(steps.e) :
        /\ IsSeq(steps.e[n])
        /\ Len(steps.e[n].e) \in {2, 3}
        /\ steps.e[n].e[1].t = "str"

RECURSIVE GetParams(_)
RECURSIVE OwnParams(_, _)
RECURSIVE StepParams(_, _)
RECURSIVE StepNames(_, _)

\* BaseEstimator.get_params(deep=True): the loop over the parameter names
OwnParams(items, out) ==
  IF items = <<>> \/ IsErr(out) THEN out
  ELSE OwnParams(Tail(items),
                 PutParam(IF items[1][2].t = "model"
                            THEN UpdateDeep(out, items[1][1], GetParams(items[1][2]))
                            ELSE out,
                          items[1][1], items[1][2]))

\* _BaseComposition._get_params: out.update(estimators)
StepNames(steps, out) ==
  IF steps = <<>> \/ IsErr(out) THEN out
  ELSE StepNames(Tail(steps), PutParam(out, steps[1].e[1], steps[1].e[2]))

\* _BaseComposition._get_params: the parameters of every step that has
\* get_params, under name__
StepParams(steps, out) ==
  IF steps = <<>> \/ IsErr(out) THEN out
  ELSE StepParams(Tail(steps),
                  IF steps[1].e[2].t = "model"
                    THEN UpdateDeep(out, steps[1].e[1], GetParams(steps[1].e[2]))
                    ELSE out)

\* the part of get_params that a composition adds
CompositeParams(model, composite, out) ==
  IF composite.t = "none" \/ IsErr(out) THEN out
  ELSE IF ~WellFormedSteps(Get(model.params, composite)) THEN Raise("TypeError")
  ELSE StepParams(Get(model.params, composite).e,
                  StepNames(Get(model.params, composite).e, out))

\* model.get_params(): the names are those of the class where the class is
\* known, sorted
GetParams(model) ==
  CompositeParams(model,
                  IF IsClass(model.module \o <<".">> \o model.cls)
                       /\ HasKey(model.params,
                                 ClassOf(model.module \o <<".">> \o model.cls).composite)
                    THEN ClassOf(model.module \o <<".">> \o model.cls).composite
                    ELSE VNone,
                  OwnParams(SortByKey(model.params), VODict(<<>>)))

RECURSIVE FlowNames(_)
\* the names of a flow and of its components at every depth
FlowNames(flow) ==
  {flow.name} \cup UNION {FlowNames(flow.components[n][2]) : n \in 1..Len(flow.components)}

RECURSIVE WithFlowIds(_, _)
\* the flow as the server returns it: every flow of the tree has a flow_id,
\* one id for one name; names is the set of the names of the whole tree
WithFlowIds(flow, names) ==
  [flow EXCEPT
     !.flow_id = VInt(1 + Cardinality({n \in names : StrLess(n, flow.name)})),
     !.components = [n \in 1..Len(flow.components) |->
                       <<flow.components[n][1], WithFlowIds(flow.components[n][2], names)>>]]

RECURSIVE GetFlowDict(_)
RECURSIVE GetFlowDictLoop(_, _)
\* the loop of get_flow_dict over the components
GetFlowDictLoop(components, flow_map) ==
  IF components = <<>> THEN flow_map
  ELSE GetFlowDictLoop(Tail(components),
                       UpdateAll(flow_map, GetFlowDict(components[1][2])))

\* get_flow_dict(_flow): name -> flow_id
GetFlowDict(flow) ==
  GetFlowDictLoop(flow.components, <<<<VStr(flow.name), flow.flow_id>>>>)

\* the text of the names of a mapping whose keys are str
NamesOf(kv) == {kv[n][1].s : n \in 1..Len(kv)}

\* _params.append(_current), an exception going through
AppendRecord(params, r) == IF IsErr(r) THEN r ELSE VList(Append(params.e, r))

\* _params.extend(more), an exception going through
Extend(params, more) == IF IsErr(more) THEN more ELSE VList(params.e \o more.e)

\* is_subcomponent_specification(values)
IsSubcomponentSpecification(values) ==
  /\ IsSeq(values)
  /\ \A n \in 1..Len(values.e) :
        /\ IsSeq(values.e[n])
        /\ Len(values.e[n].e) >= 2
        /\ values.e[n].e[2].t = "flow"

\* the body of the loop over the subcomponents of a specification: current
ParsedSubcomponent(subcomponent) ==
  IF Len(subcomponent.e) > 3 THEN Raise("ValueError")
  ELSE IF subcomponent.e[1].t # "str" THEN Raise("TypeError")
  ELSE IF Len(subcomponent.e) = 3 /\ subcomponent.e[3].t # "list" THEN Raise("TypeError")
  ELSE VDict(<<<<OML, W("component_reference")>>,
               <<W("value"),
                 VDict(<<<<W("key"), subcomponent.e[1]>>,
                         <<W("step_name"), subcomponent.e[1]>>>>
                       \o (IF Len(subcomponent.e) = 3
                             THEN <<<<W("argument_1"), subcomponent.e[3]>>>>
                             ELSE <<>>))>>>>)

\* json.dumps(parsed_values), or the first exception of the loop
DumpParsed(parsed_values) ==
  IF AnyErr(parsed_values) THEN FirstErr(parsed_values)
  ELSE IF ~JsonSerializable(VList(parsed_values)) THEN Raise("TypeError")
  ELSE VStr(Dumps(VList(parsed_values)))

\* parsed_values for current_param_values
ParsedValues(current_param_values) ==
  IF IsSubcomponentSpecification(current_param_values)
    THEN DumpParsed([n \in 1..Len(current_param_values.e) |->
                       ParsedSubcomponent(current_param_values.e[n])])
  ELSE IF ~JsonSerializable(current_param_values) THEN Raise("TypeError")
  ELSE VStr(Dumps(current_param_values))

\* _current for the parsed value, or the exception
Record(name, parsed_values, component) ==
  IF IsErr(parsed_values) THEN parsed_values
  ELSE [t |-> "record", name |-> name, value |-> parsed_values, component |-> component]

\* one pass of the loop over _flow.parameters: _params with the record of the
\* parameter, unless its value is a flow
AddRecord(params, name, current_param_values, component) ==
  IF IsErr(current_param_values) THEN current_param_values
  ELSE IF current_param_values.t = "flow" THEN params
  ELSE AppendRecord(params, Record(name, ParsedValues(current_param_values), component))

RECURSIVE ParameterLoop(_, _, _, _, _)
\* the loop over _flow.parameters; gp is component_model.get_params()
ParameterLoop(names, gp, component, installed, params) ==
  IF names = <<>> \/ IsErr(params) THEN params
  ELSE ParameterLoop(Tail(names), gp, component, installed,
                     AddRecord(params, names[1],
                               IF HasKey(gp, names[1])
                                 THEN SklearnToFlow(Get(gp, names[1]), installed)
                                 ELSE Raise("KeyError"),
                               component))

\* the ValueError of the schema check, with the two sorted lists of its message
SchemaError(flow_params, model_params) ==
  [t |-> "error", exc |-> "ValueError",
   flow_params |-> SortStrs(flow_params), model_params |-> SortStrs(model_params)]

\* the symmetric difference is never looked at
NoMismatch(expected, model_parameters) == FALSE

\* len((exp_parameters | exp_components) ^ model_parameters) != 0
SchemaMismatch(expected, model_parameters) == expected # model_parameters

RECURSIVE ExtractParameters(_, _, _, _, _)
RECURSIVE ComponentLoop(_, _, _, _, _)

\* the loop over _flow.components: _params.extend(extract_parameters(...))
ComponentLoop(components, flow_dict, gp, installed, params) ==
  IF components = <<>> \/ IsErr(params) THEN params
  ELSE ComponentLoop(Tail(components), flow_dict, gp, installed,
                     Extend(params,
                            IF HasKey(gp, components[1][1])
                              THEN ExtractParameters(components[1][2], flow_dict,
                                                     Get(gp, components[1][1]), VNone,
                                                     installed)
                              ELSE Raise("KeyError")))

\* extract_parameters from the schema check on; gp is
\* component_model.get_params(), component the id the records carry
ExtractChecked(flow, flow_dict, gp, component, installed) ==
  IF IsErr(gp) THEN gp
  ELSE IF \E n \in 1..Len(gp.kv) : gp.kv[n][1].t # "str" THEN Raise("TypeError")
  ELSE IF SchemaMismatch(NamesOf(flow.parameters) \cup NamesOf(flow.components),
                         {k \in NamesOf(gp.kv) : ~Contains(k, <<"__">>)})
    THEN SchemaError(NamesOf(flow.parameters) \cup NamesOf(flow.components),
                     {k \in NamesOf(gp.kv) : ~Contains(k, <<"__">>)})
  ELSE ComponentLoop(flow.components, flow_dict, gp.kv, installed,
                     ParameterLoop(KeySeq(flow.parameters), gp.kv, component, installed,
                                   VList(<<>>)))

\* extract_parameters(_flow, _flow_dict, component_model, _main_call, main_id);
\* main_id is None where _main_call is False
ExtractParameters(flow, flow_dict, component_model, main_id, installed) ==
  IF component_model.t # "model" THEN Raise("AttributeError")
  ELSE ExtractChecked(flow, flow_dict, GetParams(component_model),
                      IF main_id.t # "none" THEN main_id
                      ELSE Get(flow_dict, VStr(flow.name)),
                      installed)

\* obtain_parameter_values(flow, model) for a flow that has its ids
ObtainParameterValues(flow, model, installed) ==
  ExtractParameters(flow, GetFlowDict(flow), model, flow.flow_id, installed)

----------------------------------------------------------------------------
(* SklearnExtension.seed_model. A parameter that holds a cross-validator   *)
(* holds a reference to an object of the heap: seed_model assigns to the   *)
(* attribute of the object itself.                                         *)

VRef(id) == [t |-> "ref", id |-> id]
\* a numpy.random.RandomState object
RandomStateObject == [t |-> "RandomState"]

\* rs.randint(0, 2 ** 16), the n-th draw of the generator RandomState(seed)
Randint(seed, n) == (seed * 40503 + n * 25173 + 13849) % 65536

\* any value but None passes as a seed
SeedAnyObject(current_value) ==
  IF current_value.t = "none" THEN VBool(TRUE) ELSE VBool(FALSE)

\* _seed_current_object
SeedCurrentObject(current_value) ==
  IF current_value.t \in {"int", "bool"} THEN VBool(FALSE)
  ELSE IF current_value.t = "RandomState" THEN Raise("ValueError")
  ELSE IF current_value.t # "none" THEN Raise("ValueError")
  ELSE VBool(TRUE)

\* 'random_state' in param_name
HasRandomState(param_name) ==
  \E n \in 1..Len(param_name.s) : param_name.s[n] = "random_state"

\* isinstance(value, BaseCrossValidator)
IsCrossValidator(value, objects) == value.t = "ref" /\ objects[value.id].t = "cv"

\* the branch of a parameter whose name contains random_state: the draw, then
\* _seed_current_object
SeedParameter(acc, param_name, current_value, new_value) ==
  IF IsErr(SeedCurrentObject(current_value))
    THEN [acc EXCEPT !.draws = @ + 1, !.err = SeedCurrentObject(current_value)]
  ELSE IF SeedCurrentObject(current_value).b
    THEN [acc EXCEPT !.draws = @ + 1,
                     !.random_states = DictPut(@, param_name, VInt(new_value))]
  ELSE [acc EXCEPT !.draws = @ + 1]

\* the branch of a cross-validator that has the attribute random_state: the
\* draw, then the assignment to the attribute of the object
SeedCrossValidator(acc, id, current_value, new_value) ==
  IF IsErr(SeedCurrentObject(current_value))
    THEN [acc EXCEPT !.draws = @ + 1, !.err = SeedCurrentObject(current_value)]
  ELSE IF SeedCurrentObject(current_value).b
    THEN [acc EXCEPT !.draws = @ + 1,
                     !.objects[id].attrs = DictPut(@, W("random_state"), VInt(new_value))]
  ELSE [acc EXCEPT !.draws = @ + 1]

\* one pass of the loop over sorted(model_params)
SeedPass(acc, param_name, value, seed) ==
  IF HasRandomState(param_name)
    THEN SeedParameter(acc, param_name, value, Randint(seed, acc.draws + 1))
  ELSE IF IsCrossValidator(value, acc.objects)
    THEN IF ~HasKey(acc.objects[value.id].attrs, W("random_state")) THEN acc
         ELSE SeedCrossValidator(acc, value.id,
                                 Get(acc.objects[value.id].attrs, W("random_state")),
                                 Randint(seed, acc.draws + 1))
  ELSE acc

RECURSIVE SeedLoop(_, _, _)
\* for param_name in sorted(model_params), up to the first exception
SeedLoop(items, seed, acc) ==
  IF items = <<>> \/ IsErr(acc.err) THEN acc
  ELSE SeedLoop(Tail(items), seed, SeedPass(acc, items[1][1], items[1][2], seed))

\* key, delim, sub_key = key.partition('__'): the position of the first "__"
\* of a name, 0 if it has none
Delim(name) ==
  IF \E n \in 1..Len(name) : name[n] = "__"
    THEN CHOOSE n \in 1..Len(name) : name[n] = "__" /\ \A m \in 1..(n - 1) : name[m] # "__"
    ELSE 0

RECURSIVE SetParam(_, _, _)
\* steps with the step named key given the parameter sub_key
SetStepParam(steps, key, sub_key, value) ==
  [steps EXCEPT !.e = [n \in 1..Len(steps.e) |->
     IF steps.e[n].e[1] = VStr(key)
       THEN [steps.e[n] EXCEPT !.e[2] = SetParam(@, sub_key, value)]
       ELSE steps.e[n]]]

\* model.set_params(**{name: value}) for a name that get_params listed: the
\* attribute of the model, of a nested model or of a step
SetParam(m, name, value) ==
  IF Delim(name) = 0 THEN [m EXCEPT !.params = DictPut(@, VStr(name), value)]
  ELSE IF HasKey(m.params, VStr(SubSeq(name, 1, Delim(name) - 1)))
    THEN [m EXCEPT !.params =
            DictPut(@, VStr(SubSeq(name, 1, Delim(name) - 1)),
                    SetParam(Get(@, VStr(SubSeq(name, 1, Delim(name) - 1))),
                             SubSeq(name, Delim(name) + 1, Len(name)), value))]
  ELSE [m EXCEPT !.params =
          DictPut(@, ClassOf(m.module \o <<".">> \o m.cls).composite,
                  SetStepParam(Get(@, ClassOf(m.module \o <<".">> \o m.cls).composite),
                               SubSeq(name, 1, Delim(name) - 1),
                               SubSeq(name, Delim(name) + 1, Len(name)), value))]

RECURSIVE SetParams(_, _)
\* model.set_params(**random_states)
SetParams(m, random_states) ==
  IF random_states = <<>> THEN m
  ELSE SetParams(SetParam(m, random_states[1][1].s, random_states[1][2]),
                 Tail(random_states))

\* seed_model after the loop: what it returns or raises, the model and the
\* objects after the call, the number of draws
SeedReturn(m, acc) ==
  [rval |-> IF IsErr(acc.err) THEN acc.err ELSE SetParams(m, acc.random_states),
   model |-> IF IsErr(acc.err) THEN m ELSE SetParams(m, acc.random_states),
   objects |-> acc.objects,
   draws |-> acc.draws]

\* seed_model(model, seed) with rs = RandomState(seed)
SeedModelOf(m, objects, seed) ==
  IF IsErr(GetParams(m))
    THEN [rval |-> GetParams(m), model |-> m, objects |-> objects, draws |-> 0]
    ELSE SeedReturn(m, SeedLoop(SortByKey(GetParams(m).kv), seed,
                                [draws |-> 0, random_states |-> <<>>,
                                 objects |-> objects, err |-> VNone]))

----------------------------------------------------------------------------
(* The inputs: plain values, models, installed packages *)

MaxLen == 2
MaxSteps == 2
MaxCalls == 2

\* sequences over S of length at most n
SeqsUpTo(S, n) == UNION {[1..k -> S] : k \in 0..n}

Leaves ==
  {VNone, VBool(TRUE), VBool(FALSE), VInt(0), VInt(2), VInt(12),
   W("a"), W("1"), W("null"), VStr(<<>>), VStr(<<QUOTE, "a", QUOTE>>),
   VStr(<<"[", "1", "]">>)}

Elements == {VNone, VInt(1), W("a"), W("1")}

Containers ==
  {VList(q) : q \in SeqsUpTo(Elements, MaxLen)}
  \cup {VTuple(q) : q \in SeqsUpTo(Elements, MaxLen)}
  \cup {VDict(<<>>), VODict(<<>>),
        VDict(<<<<W("c"), VInt(1)>>, <<W("a"), W("a")>>>>),
        VODict(<<<<W("c"), VInt(1)>>, <<W("a"), VTuple(<<VInt(1)>>)>>>>),
        VDict(<<<<W("1"), VInt(1)>>>>),
        VDict(<<<<VInt(1), VInt(1)>>>>),
        VList(<<VList(<<VInt(0), VNone, VInt(2)>>), VList(<<VInt(1), VInt(2), VInt(5)>>)>>),
        VList(<<VList(<<VInt(0), VInt(1)>>), VList(<<VInt(1), VInt(2)>>)>>),
        VList(<<VTuple(<<VInt(1), W("a")>>), VList(<<>>)>>),
        VTuple(<<VList(<<VInt(1)>>), VDict(<<<<W("a"), VList(<<>>)>>>>)>>),
        Other, VList(<<Other>>)}

Values == Leaves \cup Containers

ModelA(v) == VModel(SK, <<"A">>, <<<<W("alpha"), v>>>>)
ModelB == VModel(SK, <<"B">>, <<>>)
ModelC(v, w) == VModel(SK, <<"C">>, <<<<W("a"), v>>, <<W("c"), w>>>>)
Pipe(steps) == VModel(SK, <<"Pipe">>, <<<<W("steps"), steps>>, <<W("memory"), VNone>>>>)
Ens(m) == VModel(SK, <<"Ens">>, <<<<W("base_estimator"), m>>>>)
\* a composition of another package whose steps have a default value
Stack(steps) == VModel(<<"mypkg">>, <<"Stack">>, <<<<W("steps"), steps>>>>)

StepIds == {W("scale"), W("fit"), W("1"), W("steps")}
LeafSubs == {ModelA(VInt(2)), ModelB, VNone}

\* models whose parameters are plain values
PlainModels ==
  {ModelA(v) : v \in Values}
  \cup {ModelC(v, w) : v \in {VInt(1), VTuple(<<>>), W("a")}, w \in {VNone, VList(<<VInt(1)>>)}}
  \cup {ModelB}

\* pipelines of at most MaxSteps steps (identifier, sub-model)
FlatPipes ==
  {Pipe(VList(q)) :
     q \in SeqsUpTo({VTuple(<<i, m>>) : i \in StepIds, m \in LeafSubs}, MaxSteps)}

\* steps of other shapes: a tuple of steps, steps that are lists, steps with
\* an extra argument, a step too long, a step that is no model
OddPipes ==
  {Pipe(VTuple(<<VTuple(<<W("scale"), ModelB>>), VTuple(<<W("fit"), ModelA(VInt(2))>>)>>)),
   Pipe(VList(<<VList(<<W("scale"), ModelB>>), VList(<<W("fit"), VNone>>)>>)),
   Pipe(VList(<<VTuple(<<W("scale"), ModelB, VList(<<VInt(0), VInt(1)>>)>>),
                VTuple(<<W("fit"), ModelA(VInt(2)), VList(<<W("a")>>)>>)>>)),
   Pipe(VList(<<VTuple(<<W("scale"), ModelB, VInt(0), VInt(1)>>)>>)),
   Pipe(VList(<<VTuple(<<W("scale"), VInt(1)>>), VTuple(<<W("fit"), ModelB>>)>>)),
   Pipe(VList(<<VTuple(<<W("scale")>>), VTuple(<<W("fit"), ModelB>>)>>)),
   Pipe(VList(<<VTuple(<<W("scale"), ModelB>>), VList(<<W("fit"), ModelA(VInt(2))>>)>>)),
   Pipe(VList(<<ModelB, ModelA(VInt(2))>>))}

\* models with a single nested model, and component graphs of depth two
NestedModels ==
  {Ens(m) : m \in {ModelA(VInt(2)), ModelB, VNone, Ens(ModelB), Ens(Ens(ModelB)),
                   ModelA(W("1")),
                   Pipe(VList(<<VTuple(<<W("scale"), ModelB>>),
                                VTuple(<<W("fit"), ModelA(VInt(2))>>)>>))}}
  \cup {Pipe(VList(<<VTuple(<<i, m>>), VTuple(<<W("fit"), n>>)>>)) :
          i \in {W("scale"), W("fit")},
          m \in {ModelB, ModelA(VInt(2))},
          n \in {Ens(ModelB), Ens(ModelA(VInt(0))),
                 Pipe(VList(<<VTuple(<<W("fit"), ModelB>>)>>)),
                 Pipe(VList(<<VTuple(<<W("scale"), ModelA(VInt(0))>>)>>))}}
  \cup {VModel(<<"mypkg">>, <<"A">>, <<<<W("alpha"), VInt(2)>>>>)}
  \cup {Ens(VModel(<<"mypkg">>, <<"A">>, <<<<W("alpha"), VInt(2)>>>>))}
  \cup {Stack(VList(<<VTuple(<<W("fit"), ModelA(VInt(2))>>)>>)),
        Stack(VList(<<VTuple(<<W("scale"), ModelB>>),
                      VTuple(<<W("fit"), Ens(ModelA(VInt(2)))>>)>>))}

\* the model with its first parameter under another name
Renamed(m) ==
  IF m.params = <<>> THEN m
  ELSE [m EXCEPT !.params[1] = <<W("foo"), m.params[1][2]>>]

\* the value with every model directly in it renamed
RenamedIn(v) ==
  CASE v.t = "model" -> Renamed(v)
    [] IsSeq(v) ->
         [v EXCEPT !.e = [n \in 1..Len(v.e) |->
            IF IsSeq(v.e[n])
              THEN [v.e[n] EXCEPT !.e = [k \in 1..Len(v.e[n].e) |->
                      IF v.e[n].e[k].t = "model" THEN Renamed(v.e[n].e[k])
                      ELSE v.e[n].e[k]]]
              ELSE v.e[n]]]
    [] OTHER -> v

\* the models obtain_parameter_values is given for the flow of m: m itself,
\* m with a renamed parameter, m with a renamed parameter in its sub-models
OtherModels(m) ==
  IF m.t # "model" THEN {m}
  ELSE {m, Renamed(m),
        [m EXCEPT !.params = [n \in 1..Len(m.params) |->
                                <<m.params[n][1], RenamedIn(m.params[n][2])>>]]}

Models == PlainModels \cup FlatPipes \cup OddPipes \cup NestedModels

Inputs == Values \cup Models

GoodEnv ==
  [sklearn |-> <<"0", ".", "2", "0">>, numpy |-> <<"1", ".", "1", "0", ".", "0">>,
   scipy |-> <<"1", ".", "0">>, openml |-> <<"0", ".", "8">>, mypkg |-> <<"1">>]

----------------------------------------------------------------------------
(* The state machine *)

VARIABLES
  o,          \* the object given to model_to_flow
  installed,  \* the __version__ of each installed package
  flow,       \* what model_to_flow returned: the descriptor in memory
  flow0,      \* the descriptor as model_to_flow returned it
  call,       \* the frame of the flow_to_sklearn call in progress
  results,    \* the outcomes of the finished flow_to_sklearn calls
  model,      \* the model given to obtain_parameter_values
  records,    \* what obtain_parameter_values returned or raised
  heap,       \* the cross-validator objects that parameters of o refer to
  seedings,   \* the finished seed_model calls
  threads     \* the frames of the flow_to_sklearn calls of concurrent callers

vars ==
  <<o, installed, flow, flow0, call, results, model, records, heap, seedings, threads>>

Unset == [t |-> "unset"]
Idle == [NewFrame(<<>>, FALSE) EXCEPT !.pc = "idle"]

Init ==
  /\ o \in Inputs
  /\ installed = GoodEnv
  /\ flow = Unset
  /\ flow0 = Unset
  /\ call = Idle
  /\ results = <<>>
  /\ model = Unset
  /\ records = Unset
  /\ heap = <<>>
  /\ seedings = <<>>
  /\ threads = <<>>

\* SklearnExtension.model_to_flow
ModelToFlow ==
  /\ flow = Unset
  /\ flow' = SklearnToFlow(o, installed)
  /\ flow0' = flow'
  /\ UNCHANGED <<o, installed, call, results, model, records, heap, seedings,
               threads>>

\* flow_to_sklearn(flow, initialize_with_defaults=keep) is called: for a flow
\* the version gate, for any other value the whole decoding. A run
\* deserializes its descriptor up to MaxCalls times or extracts from it
FlowToSklearnCall(keep) ==
  /\ flow.t \notin {"unset", "error"}
  /\ records = Unset
  /\ call.pc = "idle"
  /\ Len(results) < MaxCalls
  /\ call' = IF flow.t # "flow"
               THEN Done(NewFrame(<<>>, keep),
                         FlowToSklearn([store |-> flow, pool |-> <<>>], NoPool,
                                       flow, keep, installed).v)
             ELSE IF ~IsSklearnFlow(flow.external_version)
               THEN Done(NewFrame(<<>>, keep), Raise("ValueError"))
             ELSE NewFrame(<<>>, keep)
  /\ flow' = AfterDecode(flow, installed)
  /\ UNCHANGED <<o, installed, flow0, results, model, records, heap, seedings,
               threads>>

\* one step of the _deserialize_model call of the root flow
DeserializeStep ==
  /\ call' = Step(call, flow, installed).fr
  /\ flow' = Step(call, flow, installed).store
  /\ UNCHANGED <<o, installed, flow0, results, model, records, heap, seedings,
               threads>>

\* _check_dependencies(flow.dependencies) and the copy of flow.components
CheckDeps ==
  /\ call.pc = "deps"
  /\ DeserializeStep

\* one pass of the loop over flow.parameters
DecodeParameter ==
  /\ call.pc = "params"
  /\ DeserializeStep

\* one pass of the loop over flow.components
FoldComponent ==
  /\ call.pc = "components"
  /\ DeserializeStep

\* the import of the class, the defaults, the construction
ConstructModel ==
  /\ call.pc = "construct"
  /\ DeserializeStep

\* the call returns or raises
FlowToSklearnReturn ==
  /\ call.pc = "done"
  /\ results' = Append(results, [keep |-> call.keep, rval |-> call.rval])
  /\ call' = Idle
  /\ UNCHANGED <<o, installed, flow, flow0, model, records, heap, seedings,
               threads>>

\* obtain_parameter_values(flow, m) with the flow as the server holds it, for
\* the model the flow was built from or another one; one call in a run
ObtainParameterValuesCall ==
  /\ flow.t = "flow"
  /\ call.pc = "idle"
  /\ results = <<>>
  /\ records = Unset
  /\ \E m \in OtherModels(o) :
        /\ model' = m
        /\ records' = ObtainParameterValues(WithFlowIds(flow, FlowNames(flow)), m,
                                            installed)
  /\ UNCHANGED <<o, installed, flow, flow0, call, results, heap, seedings,
               threads>>

Next ==
  \/ ModelToFlow
  \/ \E keep \in BOOLEAN : FlowToSklearnCall(keep)
  \/ CheckDeps
  \/ DecodeParameter
  \/ FoldComponent
  \/ ConstructModel
  \/ FlowToSklearnReturn
  \/ ObtainParameterValuesCall

Spec == Init /\ [][Next]_vars

----------------------------------------------------------------------------
(* Flows with a manifest of their own, as the server returns them, against *)
(* several installed versions of numpy                                     *)

MaxLines == 2

V161 == <<"1", ".", "6", ".", "1">>
V1100 == <<"1", ".", "1", "0", ".", "0">>
V150 == <<"1", ".", "5", ".", "0">>
V110 == <<"1", ".", "1", "0">>

Operations == {<<"=", "=">>, <<">">>, <<">", "=">>}
RequiredVersions == {V161, V1100, V110}
InstalledVersions == {V1100, V150, V161}

\* the lines name, operation, version with a numeric version
NumericLines == {<<"numpy">> \o op \o v : op \in Operations, v \in RequiredVersions}

\* lines that do not parse, name no installed package, or have no number to
\* compare
OtherLines ==
  {<<"foo", "@", "a">>, <<"numpy">>, <<"numpy", ">", "=">>, <<"numpy", "=">> \o V161,
   <<"foo", ">", "=", "1">>, <<"numpy", ">", "=", "1", ".", "6", "dev">>}

Manifests ==
  {Join(q, <<NL>>) : q \in SeqsUpTo(NumericLines \cup OtherLines, MaxLines)}

\* the manifests of at most one line
ShortManifests == {<<>>} \cup NumericLines \cup OtherLines

\* the flow with the manifest m, as the manifest of its component where it has
\* one
WithManifest(f, m) ==
  IF f.components = <<>> THEN [f EXCEPT !.dependencies = m]
  ELSE [f EXCEPT !.components[1][2].dependencies = m]

InitDeps ==
  /\ o \in {ModelA(VInt(2)), Ens(ModelA(VInt(2)))}
  /\ installed \in {[GoodEnv EXCEPT !.numpy = v] : v \in InstalledVersions}
  /\ flow \in {WithManifest(SklearnToFlow(o, installed), m) :
                 m \in IF o.cls = <<"A">> THEN Manifests ELSE ShortManifests}
  /\ flow0 = flow
  /\ call = Idle
  /\ results = <<>>
  /\ model = Unset
  /\ records = Unset
  /\ heap = <<>>
  /\ seedings = <<>>
  /\ threads = <<>>

\* SklearnExtension.flow_to_model(flow) and the steps of its call
NextDeps ==
  \/ FlowToSklearnCall(FALSE)
  \/ CheckDeps
  \/ DecodeParameter
  \/ FoldComponent
  \/ ConstructModel
  \/ FlowToSklearnReturn

SpecDeps == InitDeps /\ [][NextDeps]_vars

----------------------------------------------------------------------------
(* Types, distributions, functions and cross-validators: the objects are   *)
(* those of the environment that writes the descriptor, AttributeTable is  *)
(* what the environment that reads it can import.                          *)

Uniform == <<"scipy", ".", "uniform_gen">>
\* a class that the installed scipy has no more, a package that is not
\* installed
GoneClass == <<"scipy", ".", "gone_gen">>
GoneModule == <<"oldpkg", ".", "uniform_gen">>

Rv(dist) == VRv(dist, VInt(0), VInt(1), VTuple(<<VInt(1)>>), VDict(<<>>))
KFold(random_state) ==
  VCv(<<"sklearn", ".", "KFold">>,
      <<<<W("n_splits"), VInt(2)>>, <<W("random_state"), random_state>>,
        <<W("shuffle"), VBool(FALSE)>>>>)
LeaveOneOut == VCv(<<"sklearn", ".", "LeaveOneOut">>, <<>>)

\* the values of the four kinds, and values of no supported kind
KindValues ==
  {VType("float"), VType("int32"), VType("str")}
    \cup {Rv(Uniform), Rv(GoneClass), Rv(GoneModule),
          VRv(Uniform, VInt(0), VInt(1), VTuple(<<>>),
              VDict(<<<<W("scale"), VInt(2)>>>>))}
    \cup {VFunction(<<"mypkg", ".", "score">>), VFunction(<<"mypkg", ".", "gone">>)}
    \cup {KFold(VNone), KFold(VInt(1)), KFold(W("1")), LeaveOneOut}
    \cup {Other, VDict(<<<<VInt(1), VInt(2)>>>>), VODict(<<<<VInt(1), VInt(2)>>>>),
          KFold(Other),
          VRv(Uniform, VInt(0), VInt(1), VTuple(<<Other>>), VDict(<<>>))}

\* each of them alone, in a list, in a tuple, in a mapping, as the parameter
\* of a model and of the component of a model
KindInputs ==
  UNION {{k, VList(<<k>>), VTuple(<<VInt(1), k>>), VDict(<<<<W("a"), k>>>>),
          ModelA(k), ModelA(VList(<<k>>)), Ens(ModelA(k))} : k \in KindValues}

InitKinds ==
  /\ o \in KindInputs
  /\ installed = GoodEnv
  /\ flow = Unset
  /\ flow0 = Unset
  /\ call = Idle
  /\ results = <<>>
  /\ model = Unset
  /\ records = Unset
  /\ heap = <<>>
  /\ seedings = <<>>
  /\ threads = <<>>

\* model_to_flow, then flow_to_model up to MaxCalls times
NextKinds ==
  \/ ModelToFlow
  \/ \E keep \in BOOLEAN : FlowToSklearnCall(keep)
  \/ CheckDeps
  \/ DecodeParameter
  \/ FoldComponent
  \/ ConstructModel
  \/ FlowToSklearnReturn

SpecKinds == InitKinds /\ [][NextKinds]_vars

----------------------------------------------------------------------------
(* Properties                                                              *)

RECURSIVE DecimalValue(_, _)
\* the number a run of digits writes
DecimalValue(digits, acc) ==
  IF digits = <<>> THEN acc
  ELSE DecimalValue(Tail(digits), 10 * acc + DigitVal(digits[1]))

\* a dotted version as its sequence of numbers
Numbers(v) ==
  [n \in 1..Len(Split(v, ".", <<>>)) |-> DecimalValue(Split(v, ".", <<>>)[n], 0)]

RECURSIVE NumbersLess(_, _)
\* a before b, number by number; a proper prefix is before
NumbersLess(a, b) ==
  IF b = <<>> THEN FALSE
  ELSE IF a = <<>> THEN TRUE
  ELSE IF a[1] # b[1] THEN a[1] < b[1]
  ELSE NumbersLess(Tail(a), Tail(b))

Satisfies(op, inst, req) ==
  CASE op = <<"=", "=">> -> Numbers(inst) = Numbers(req)
    [] op = <<">">> -> NumbersLess(Numbers(req), Numbers(inst))
    [] op = <<">", "=">> -> ~NumbersLess(Numbers(inst), Numbers(req))

\* a numeric line about numpy that the installed numpy satisfies
LineSatisfied(line, env) ==
  \E op \in Operations, v \in RequiredVersions :
     line = <<"numpy">> \o op \o v /\ Satisfies(op, env.numpy, v)

ManifestLines(dependencies) ==
  IF dependencies = <<>> THEN <<>> ELSE Split(dependencies, NL, <<>>)

\* C10: the dependency check of a manifest whose lines are all of the form
\* name, operation, numeric version passes exactly if the installed version,
\* compared number by number and not as text, satisfies the operation of
\* every line (== equal, > greater, >= greater or equal), and raises
\* ValueError otherwise; whatever the lines, the check passes only if every
\* line passes on its own.
C10_DependencyComparison ==
  [][call.pc = "deps" =>
       LET lines == ManifestLines(flow.dependencies)
       IN  /\ (\A n \in 1..Len(lines) : lines[n] \in NumericLines) =>
                IF \A n \in 1..Len(lines) : LineSatisfied(lines[n], installed)
                  THEN call'.pc = "params"
                  ELSE call'.pc = "done" /\ call'.rval = Raise("ValueError")
           /\ call'.pc = "params" =>
                \A n \in 1..Len(lines) : CheckDependency(lines[n], installed) = VNone
    ]_vars

\* numpy>=1.6.1 has passed against the installed 1.10.0
C10_Witness ==
  /\ call.pc = "params"
  /\ installed.numpy = V1100
  /\ \E n \in 1..Len(ManifestLines(flow.dependencies)) :
        ManifestLines(flow.dependencies)[n] = <<"numpy", ">", "=">> \o V161

\* C5: the descriptor is at every moment what model_to_flow returned, its
\* components and parameters at every depth included, and the calls of
\* flow_to_sklearn that were given the same arguments had the same outcome.
C5_DescriptorNotMutated ==
  /\ flow = flow0
  /\ \A i, j \in 1..Len(results) :
        results[i].keep = results[j].keep => results[i].rval = results[j].rval

\* two calls have returned a model built from components
C5_Witness ==
  /\ Len(results) >= 2
  /\ results[1].rval.t = "model"
  /\ results[1].keep = results[2].keep
  /\ flow.t = "flow"
  /\ flow.components # <<>>

RECURSIVE NameSeq(_)
\* the names of the components at every depth, one entry for one component
NameSeq(components) ==
  IF components = <<>> THEN <<>>
  ELSE <<components[1][2].name>> \o NameSeq(components[1][2].components)
       \o NameSeq(Tail(components))

Distinct(q) == \A i, j \in 1..Len(q) : i # j => q[i] # q[j]

Range(q) == {q[n] : n \in 1..Len(q)}

\* model_to_flow(o) has just returned or raised. o and flow do not change
\* afterwards, so what holds of them here holds in every later state
Serialized ==
  flow # Unset /\ call.pc = "idle" /\ results = <<>> /\ records = Unset

\* C7: in a descriptor that model_to_flow returned no two components of the
\* transitive component tree have the same name; where the sub-models of a
\* model serialize and two components of the tree would have the same name,
\* model_to_flow raises ValueError.
C7_UniqueNames ==
  /\ flow.t = "flow" => Distinct(NameSeq(flow.components))
  /\ (/\ Serialized
      /\ o.t = "model"
      /\ ~IsErr(ExtractInformationFromModel(o, installed).err)
      /\ ~Distinct(NameSeq(ExtractInformationFromModel(o, installed).sub_components)))
     => flow = Raise("ValueError")

\* a descriptor with components at two depths has been returned
C7_Witness ==
  /\ flow.t = "flow"
  /\ Len(NameSeq(flow.components)) >= 3
  /\ \E n \in 1..Len(flow.components) : flow.components[n][2].components # <<>>

RECURSIVE IsPlainValue(_)
\* a value built from bool, int, str and None with lists, tuples and
\* mappings whose keys are str
IsPlainValue(v) ==
  CASE v.t \in {"none", "bool", "int", "str"} -> TRUE
    [] v.t \in {"list", "tuple"} -> \A n \in 1..Len(v.e) : IsPlainValue(v.e[n])
    [] v.t = "dict" ->
         \A n \in 1..Len(v.kv) : v.kv[n][1].t = "str" /\ IsPlainValue(v.kv[n][2])
    [] OTHER -> FALSE

RECURSIVE StructEq(_, _)
\* structural equality: the same type and value at every leaf, a list a
\* list, a tuple a tuple, a mapping the same keys with equal values
StructEq(a, b) ==
  IF a.t # b.t THEN FALSE
  ELSE CASE a.t \in {"list", "tuple"} ->
              /\ Len(a.e) = Len(b.e)
              /\ \A n \in 1..Len(a.e) : StructEq(a.e[n], b.e[n])
         [] a.t = "dict" ->
              /\ KeySet(a.kv) = KeySet(b.kv)
              /\ \A n \in 1..Len(a.kv) : StructEq(a.kv[n][2], Get(b.kv, a.kv[n][1]))
         [] OTHER -> a = b

\* C2: for a value o of bool, int, str and None leaves in lists, tuples and
\* mappings with str keys, flow_to_sklearn(sklearn_to_flow(o)) is
\* structurally equal to o: a str stays the same str, whatever its text.
C2_ValueRoundTrip ==
  \A n \in 1..Len(results) : IsPlainValue(o) => StructEq(results[n].rval, o)

\* C3: for a model o of sklearn whose parameters are plain values, empty containers and
\* empty strings included, flow_to_model(model_to_flow(o)) is a model of the
\* class of o with a structurally equal value for every parameter.
C3_PlainModelRoundTrip ==
  \A n \in 1..Len(results) :
     (/\ o.t = "model"
      /\ o.module = SK
      /\ \A k \in 1..Len(o.params) : IsPlainValue(o.params[k][2])
      /\ ~results[n].keep)
     => /\ results[n].rval.t = "model"
        /\ results[n].rval.module = o.module
        /\ results[n].rval.cls = o.cls
        /\ KeySet(results[n].rval.params) = KeySet(o.params)
        /\ \A k \in 1..Len(o.params) :
              StructEq(Get(results[n].rval.params, o.params[k][1]), o.params[k][2])

\* a non-empty list of (identifier, sub-model) 2-tuples with distinct
\* identifiers, none of them reserved, and distinct sub-model classes, every
\* sub-model with plain parameters only
IsStepList(steps, reserved) ==
  /\ steps.t = "list"
  /\ Len(steps.e) >= 1
  /\ \A n \in 1..Len(steps.e) :
        /\ steps.e[n].t = "tuple"
        /\ Len(steps.e[n].e) = 2
        /\ steps.e[n].e[1].t = "str"
        /\ steps.e[n].e[1] \notin reserved
        /\ steps.e[n].e[2].t = "model"
        /\ \A k \in 1..Len(steps.e[n].e[2].params) :
              IsPlainValue(steps.e[n].e[2].params[k][2])
  /\ \A i, j \in 1..Len(steps.e) :
        i # j => /\ steps.e[i].e[1] # steps.e[j].e[1]
                 /\ <<steps.e[i].e[2].module, steps.e[i].e[2].cls>>
                      # <<steps.e[j].e[2].module, steps.e[j].e[2].cls>>

\* the text decodes to one component reference for every step, in order
DecodesTo(text, steps) ==
  /\ Loads(text).ok
  /\ Loads(text).v.t = "list"
  /\ Len(Loads(text).v.e) = Len(steps.e)
  /\ \A n \in 1..Len(steps.e) :
        /\ Loads(text).v.e[n].t = "dict"
        /\ Get(Loads(text).v.e[n].kv, OML) = W("component_reference")
        /\ Get(Get(Loads(text).v.e[n].kv, W("value")).kv, W("key")) = steps.e[n].e[1]

\* the steps parameter is a text that decodes to the references
DecodesToReferences(value, steps) ==
  /\ value.t = "str"
  /\ DecodesTo(value.s, steps)

\* C1: for a model o whose steps is a list of (identifier, sub-model)
\* 2-tuples with distinct identifiers and distinct classes, model_to_flow
\* returns a descriptor whose components are those identifiers and whose
\* steps decodes to one reference for every step in order, and flow_to_model
\* returns a model whose steps is the list of the 2-tuples (identifier,
\* sub-model) with the same identifiers in the same order.
C1_StepSequenceRoundTrip ==
  (/\ flow # Unset
   /\ o.t = "model"
   /\ HasKey(o.params, W("steps"))
   /\ IsStepList(Get(o.params, W("steps")), KeySet(o.params)))
  => /\ flow.t = "flow"
     /\ KeySet(flow.components)
          = {Get(o.params, W("steps")).e[n].e[1] : n \in 1..Len(Get(o.params, W("steps")).e)}
     /\ DecodesToReferences(Get(flow.parameters, W("steps")), Get(o.params, W("steps")))
     /\ \A n \in 1..Len(results) :
           ~results[n].keep =>
             /\ results[n].rval.t = "model"
             /\ Get(results[n].rval.params, W("steps")).t = "list"
             /\ Len(Get(results[n].rval.params, W("steps")).e)
                  = Len(Get(o.params, W("steps")).e)
             /\ \A k \in 1..Len(Get(o.params, W("steps")).e) :
                   /\ Get(results[n].rval.params, W("steps")).e[k].t = "tuple"
                   /\ Len(Get(results[n].rval.params, W("steps")).e[k].e) = 2
                   /\ Get(results[n].rval.params, W("steps")).e[k].e[1]
                        = Get(o.params, W("steps")).e[k].e[1]
                   /\ Get(results[n].rval.params, W("steps")).e[k].e[2].t = "model"

\* what flow_to_sklearn makes of the key of a reference
ReferenceKey(value) ==
  IF value.t # "dict" \/ ~HasKey(value.kv, W("key")) THEN Raise("KeyError")
  ELSE IF Get(value.kv, W("key")).t = "str" /\ Loads(Get(value.kv, W("key")).s).ok
    THEN Loads(Get(value.kv, W("key")).s).v
  ELSE Get(value.kv, W("key"))

RECURSIVE ReferencedKeys(_), ReferencedIn(_, _)
\* the keys of the component references in a parameter value, one entry for
\* every reference
ReferencedKeys(v) ==
  LET d == IF v.t = "str" /\ Loads(v.s).ok THEN Loads(v.s).v ELSE v
  IN  CASE d.t \in {"list", "tuple"} -> ReferencedIn(d.e, 1)
        [] d.t = "dict" /\ HasKey(d.kv, OML) ->
             IF Get(d.kv, OML) = W("component_reference") /\ HasKey(d.kv, W("value"))
               THEN <<ReferenceKey(Get(d.kv, W("value")))>>
               ELSE <<>>
        [] d.t = "dict" /\ ~HasKey(d.kv, OML) ->
             ReferencedIn([n \in 1..Len(d.kv) |-> d.kv[n][2]], 1)
        [] OTHER -> <<>>

ReferencedIn(vs, n) ==
  IF n > Len(vs) THEN <<>> ELSE ReferencedKeys(vs[n]) \o ReferencedIn(vs, n + 1)

\* one pass of the loop over the parameters of the outermost call
ParameterPass == call.pc = "params" /\ call.idx <= Len(flow.parameters)

\* one pass of the loop over the components of the outermost call
ComponentPass == call.pc = "components" /\ call.idx <= Len(flow.components)

\* C4: in one _deserialize_model call the pool only shrinks; a parameter whose
\* value is decoded without an exception has removed exactly the keys of its
\* references from the pool, each of them once and each of them in the pool
\* before; a second reference to a key or a reference to a key that is not in
\* the pool ends the call with an exception and no model; and the loop over
\* the components gives no slot to a component that left the pool.
C4_AtMostOnceConsumption ==
  [][/\ ParameterPass =>
          /\ KeySet(call'.pool) \subseteq KeySet(call.pool)
          /\ call'.pc # "done" =>
                /\ Distinct(ReferencedKeys(flow.parameters[call.idx][2]))
                /\ Range(ReferencedKeys(flow.parameters[call.idx][2]))
                     \subseteq KeySet(call.pool)
                /\ KeySet(call'.pool)
                     = KeySet(call.pool)
                         \ Range(ReferencedKeys(flow.parameters[call.idx][2]))
          /\ (\/ ~Distinct(ReferencedKeys(flow.parameters[call.idx][2]))
              \/ ~(Range(ReferencedKeys(flow.parameters[call.idx][2]))
                     \subseteq KeySet(call.pool)))
             => call'.pc = "done" /\ IsErr(call'.rval)
     /\ ComponentPass =>
          /\ call'.pool = call.pool
          /\ flow.components[call.idx][1] \notin KeySet(call.pool)
             => call'.parameter_dict = call.parameter_dict]_vars

\* a call ended by the KeyError of a second reference to a consumed key
C4_Witness ==
  /\ flow.t = "flow"
  /\ call.pc = "done"
  /\ call.rval = Raise("KeyError")
  /\ call.idx <= Len(flow.parameters)
  /\ ~Distinct(ReferencedKeys(flow.parameters[call.idx][2]))
  /\ Range(ReferencedKeys(flow.parameters[call.idx][2])) \subseteq KeySet(flow.components)
  /\ Len(call.pool) < Len(flow.components)

\* the (identifier, sub-model) pairs directly in a parameter value, in order:
\* a model under its parameter name, the sub-models of a step sequence under
\* their step names
PairsIn(k, v) ==
  CASE v.t = "model" -> <<<<k, v>>>>
    [] IsSeq(v) ->
         SelectSeq([n \in 1..Len(v.e) |->
                      IF IsSeq(v.e[n]) /\ Len(v.e[n].e) >= 2
                        THEN <<v.e[n].e[1], v.e[n].e[2]>>
                        ELSE <<VNone, VNone>>],
                   LAMBDA p : p[2].t = "model")
    [] OTHER -> <<>>

RECURSIVE PairsOf(_)
\* the (identifier, sub-model) pairs of the parameters, in order
PairsOf(params) ==
  IF params = <<>> THEN <<>>
  ELSE PairsIn(params[1][1], params[1][2]) \o PairsOf(Tail(params))

\* the (identifier, sub-model) pairs at depth one of a model
SubModelsOf(m) == Range(PairsOf(SortByKey(m.params)))

RECURSIVE IdentifiersIn(_)
\* the identifiers of the sub-models of m at every depth
IdentifiersIn(m) ==
  {p[1] : p \in SubModelsOf(m)} \cup UNION {IdentifiersIn(p[2]) : p \in SubModelsOf(m)}

\* an identifier of depth one is the identifier of a sub-model further down
SameIdentifierAtTwoDepths(m) ==
  \E p, q \in SubModelsOf(m) : p[1] \in IdentifiersIn(q[2])

\* the name of a component of depth one is the name of a component further
\* down
SameNameAtTwoDepths(sub_components) ==
  \E i, j \in 1..Len(sub_components) :
     sub_components[i][2].name \in Range(NameSeq(sub_components[j][2].components))

\* C6 as stated: model_to_flow of a model that uses the same sub-model
\* identifier (step name or parameter name) at two depths raises the
\* ValueError of the duplicate component and returns no descriptor.
C6_DuplicateIdentifier ==
  (flow # Unset /\ o.t = "model" /\ SameIdentifierAtTwoDepths(o))
  => flow = Raise("ValueError")

\* C6 amended: the duplicates are found by the derived name of the
\* components. Where the sub-models of a model serialize, a component of depth
\* one named as a component further down makes model_to_flow raise ValueError
\* and return no descriptor, and a model that uses one identifier at two
\* depths with no two components of the same name gets its descriptor.
C6_DuplicateNameAtTwoDepths ==
  (/\ Serialized
   /\ o.t = "model"
   /\ ~IsErr(ExtractInformationFromModel(o, installed).err))
  => /\ SameNameAtTwoDepths(ExtractInformationFromModel(o, installed).sub_components)
        => flow = Raise("ValueError")
     /\ (/\ SameIdentifierAtTwoDepths(o)
         /\ Distinct(NameSeq(ExtractInformationFromModel(o, installed).sub_components)))
        => flow.t = "flow"

\* model_to_flow has raised for a component of depth one named as a component
\* further down
C6_Witness ==
  /\ o.t = "model"
  /\ flow = Raise("ValueError")
  /\ ~IsErr(ExtractInformationFromModel(o, installed).err)
  /\ SameNameAtTwoDepths(ExtractInformationFromModel(o, installed).sub_components)

\* the names a descriptor declares: its parameters and its components
DeclaredNames(f) == NamesOf(f.parameters) \cup NamesOf(f.components)

\* the parameter names of a model that contain no '__'
NonNestedNames(m) ==
  {k \in NamesOf(GetParams(m).kv) : \A n \in 1..Len(k) : k[n] # "__"}

RECURSIVE LevelsMatch(_, _)
\* at every level of the component tree the declared names are the names of
\* the model of that level
LevelsMatch(f, m) ==
  /\ m.t = "model"
  /\ ~IsErr(GetParams(m))
  /\ DeclaredNames(f) = NonNestedNames(m)
  /\ \A n \in 1..Len(f.components) :
        LevelsMatch(f.components[n][2], Get(GetParams(m).kv, f.components[n][1]))

\* q is the sorted list of the names in names
IsSortedListOf(q, names) ==
  /\ Range(q) = names
  /\ \A i, j \in 1..Len(q) : i < j => StrLess(q[i], q[j])

\* the ValueError of the schema check
IsSchemaError(r) ==
  r.t = "error" /\ r.exc = "ValueError" /\ "flow_params" \in DOMAIN r

\* obtain_parameter_values returns a list for the model the flow was made from
AcceptsSource ==
  ObtainParameterValues(WithFlowIds(flow, FlowNames(flow)), o, installed).t = "list"

\* C8: obtain_parameter_values raises the ValueError with the sorted names of
\* the flow and the sorted names of the model when, at the root, the declared
\* parameter and component names differ from the names of the model without
\* '__'; where it returns a list for the model the flow was made from, it
\* raises that ValueError for a model whose names differ at some level of the
\* component tree; it returns a list of records only when the names agree at every
\* level of the component tree; a model with one renamed parameter gets the
\* ValueError and no list.
C8_SchemaCheck ==
  (records # Unset /\ model.t = "model" /\ ~IsErr(GetParams(model)))
  => /\ DeclaredNames(flow) # NonNestedNames(model)
        => /\ IsSchemaError(records)
           /\ IsSortedListOf(records.flow_params, DeclaredNames(flow))
           /\ IsSortedListOf(records.model_params, NonNestedNames(model))
     /\ (AcceptsSource /\ ~LevelsMatch(flow, model)) => IsSchemaError(records)
     /\ records.t = "list" => LevelsMatch(flow, model)
     /\ (model = Renamed(o) /\ o.params # <<>>) => IsSchemaError(records)

\* obtain_parameter_values has raised for a model with a renamed parameter
C8_Witness ==
  /\ records # Unset
  /\ model.t = "model"
  /\ o.params # <<>>
  /\ model = Renamed(o)
  /\ IsSchemaError(records)
  /\ records.flow_params # records.model_params

\* obtain_parameter_values has raised at a level below the root
C8_WitnessBelow ==
  /\ records # Unset
  /\ model.t = "model"
  /\ ~IsErr(GetParams(model))
  /\ DeclaredNames(flow) = NonNestedNames(model)
  /\ AcceptsSource
  /\ IsSchemaError(records)

\* the names of the parameters of m that hold one sub-model
SingleModelNames(m) ==
  {m.params[n][1].s : n \in {i \in 1..Len(m.params) : m.params[i][2].t = "model"}}

\* the entries of the sequences of sequences among the parameter values of m
StepEntries(m) ==
  UNION {Range(m.params[n][2].e) :
           n \in {i \in 1..Len(m.params) :
                    /\ IsSeq(m.params[i][2])
                    /\ \A e \in Range(m.params[i][2].e) :
                          IsSeq(e) /\ Len(e.e) >= 2 /\ e.e[1].t = "str"}}

\* the identifiers of the steps of m that hold a sub-model
EnabledSteps(m) == {e.e[1].s : e \in {x \in StepEntries(m) : x.e[2].t = "model"}}

\* the identifiers of the steps of m that are switched off
DisabledSteps(m) == {e.e[1].s : e \in {x \in StepEntries(m) : x.e[2].t = "none"}}

\* the sub-model of m under an identifier, the last one where there are two
SubModelAt(m, k) ==
  LET q == SelectSeq(PairsOf(SortByKey(m.params)), LAMBDA p : p[1] = k)
  IN  q[Len(q)][2]

RECURSIVE NameSets(_, _)
\* the name sets of a descriptor and of the descriptors of its components
NameSets(f, m) ==
  /\ NamesOf(f.parameters) = NamesOf(m.params)
  /\ NamesOf(f.components) \cap NamesOf(f.parameters) = SingleModelNames(m)
  /\ NamesOf(f.components) = SingleModelNames(m) \cup EnabledSteps(m)
  /\ DeclaredNames(f) = NonNestedNames(m) \ (DisabledSteps(m) \ EnabledSteps(m))
  /\ \A n \in 1..Len(f.components) :
        NameSets(f.components[n][2], SubModelAt(m, f.components[n][1]))

GrammarOperations == Operations \cup {<<"=">>}

\* the installed version satisfies the operation of the grammar, = as ==
GrammarSatisfies(op, inst, req) ==
  Satisfies(IF op = <<"=">> THEN <<"=", "=">> ELSE op, inst, req)

\* C11: of a manifest of one line about the installed numpy, the line numpy
\* alone passes; a line numpy=v, numpy==v, numpy>=v or numpy>v with a numeric
\* v is checked as a constraint, passing if the installed version satisfies
\* it and raising ValueError if not; the line foo@a raises ValueError.
C11_DependencyGrammar ==
  [][(call.pc = "deps" /\ Len(ManifestLines(flow.dependencies)) = 1) =>
       /\ ManifestLines(flow.dependencies)[1] = <<"numpy">> => call'.pc = "params"
       /\ \A op \in GrammarOperations, v \in RequiredVersions :
             ManifestLines(flow.dependencies)[1] = <<"numpy">> \o op \o v =>
               IF GrammarSatisfies(op, installed.numpy, v)
                 THEN call'.pc = "params"
                 ELSE call'.pc = "done" /\ call'.rval = Raise("ValueError")
       /\ ManifestLines(flow.dependencies)[1] = <<"foo", "@", "a">> =>
             call'.pc = "done" /\ call'.rval = Raise("ValueError")
    ]_vars

\* the flow of the component that the parameter of this pass refers to
ReferencedComponent ==
  Get(flow.components, ReferencedKeys(flow.parameters[call.idx][2])[1])

\* C12: the first step of _deserialize_model is the check of the manifest:
\* no parameter is decoded and no component consumed before it, and where the
\* manifest does not parse or is not satisfied the call ends with the
\* exception of the check, no parameter decoded, no component consumed, no
\* class imported and nothing constructed. The same holds of the call for a
\* component: where its manifest fails, the reference to it raises the
\* exception of the check, the component stays in the pool and the enclosing
\* call decodes and constructs nothing more.
C12_DependencyGate ==
  [][/\ call.pc = "deps" =>
          /\ call.parameter_dict = <<>>
          /\ call.pool = <<>>
          /\ IsErr(CheckDependencies(flow.dependencies, installed)) =>
                /\ call'.pc = "done"
                /\ call'.rval = CheckDependencies(flow.dependencies, installed)
                /\ call'.parameter_dict = <<>>
                /\ call'.pool = <<>>
     /\ (/\ ParameterPass
         /\ Len(ReferencedKeys(flow.parameters[call.idx][2])) = 1
         /\ HasKey(call.pool, ReferencedKeys(flow.parameters[call.idx][2])[1])
         /\ IsSklearnFlow(ReferencedComponent.external_version)
         /\ IsErr(CheckDependencies(ReferencedComponent.dependencies, installed))) =>
          /\ call'.pc = "done"
          /\ call'.rval = CheckDependencies(ReferencedComponent.dependencies, installed)
          /\ call'.parameter_dict = call.parameter_dict
          /\ call'.pool = call.pool
     /\ call'.pc \in {"params", "components", "construct"} =>
          CheckDependencies(flow.dependencies, installed) = VNone
    ]_vars

\* the call for a flow whose component has a manifest that fails has raised
\* the exception of the check, the component still in the pool
C12_Witness ==
  /\ flow.t = "flow"
  /\ flow.components # <<>>
  /\ call.pc = "done"
  /\ CheckDependencies(flow.dependencies, installed) = VNone
  /\ IsErr(CheckDependencies(flow.components[1][2].dependencies, installed))
  /\ call.rval = CheckDependencies(flow.components[1][2].dependencies, installed)
  /\ call.pool = flow.components

RECURSIVE ComponentsKept(_, _)
\* every component of the descriptor f, at every depth, is a sub-model of m
\* under its identifier
ComponentsKept(f, m) ==
  \A n \in 1..Len(f.components) :
     /\ f.components[n][1] \in {p[1] : p \in SubModelsOf(m)}
     /\ ComponentsKept(f.components[n][2], SubModelAt(m, f.components[n][1]))

\* C13: a model that flow_to_sklearn returned in keep-defaults mode holds a
\* reconstructed sub-model for every component the descriptor declares, be it
\* the value of a parameter or a step of a step sequence, whether or not the
\* parameter that carries it has a default value.
C13_ComponentsNeverDefaulted ==
  \A n \in 1..Len(results) :
     (flow.t = "flow" /\ results[n].keep /\ results[n].rval.t = "model")
     => ComponentsKept(flow, results[n].rval)

\* an entry of the comma-separated external_version begins with sklearn==
HasSklearnEntry(external_version) ==
  \E n \in 1..Len(Split(external_version, ",", <<>>)) :
     /\ Len(Split(external_version, ",", <<>>)[n]) >= 3
     /\ SubSeq(Split(external_version, ",", <<>>)[n], 1, 3) = <<"sklearn", "=", "=">>

RECURSIVE AllSklearn(_)
\* the descriptor and its components at every depth have such an entry
AllSklearn(f) ==
  /\ HasSklearnEntry(f.external_version)
  /\ \A n \in 1..Len(f.components) : AllSklearn(f.components[n][2])

\* C14: flow_to_sklearn of a descriptor whose external_version has no entry
\* that begins with sklearn== raises ValueError; where a component at some
\* depth has no such entry the call raises ValueError and returns no model;
\* the descriptor that model_to_flow returns for a model of sklearn has such
\* an entry.
C14_VersionGate ==
  /\ \A n \in 1..Len(results) :
        flow.t = "flow" =>
          /\ ~HasSklearnEntry(flow.external_version)
             => results[n].rval = Raise("ValueError")
          /\ ~AllSklearn(flow) => results[n].rval = Raise("ValueError")
          /\ results[n].rval.t = "model" => AllSklearn(flow)
  /\ (flow.t = "flow" /\ o.t = "model" /\ o.module = SK)
     => HasSklearnEntry(flow.external_version)

\* the call for a descriptor of the family with a component of another family
\* has raised ValueError
C14_Witness ==
  /\ flow.t = "flow"
  /\ HasSklearnEntry(flow.external_version)
  /\ ~AllSklearn(flow)
  /\ Len(results) >= 1
  /\ results[1].rval = Raise("ValueError")

----------------------------------------------------------------------------
(* Seeding: seed_model is called on a model up to MaxCalls times.          *)

R(cv, random_state) ==
  VModel(SK, <<"R">>, <<<<W("cv"), cv>>, <<W("random_state"), random_state>>>>)

\* the cross-validators a parameter can refer to
CvObjects == {KFold(VNone), KFold(VInt(3)), KFold(RandomStateObject), LeaveOneOut}
\* the values of a parameter random_state
SeedValues == {VNone, VInt(7), RandomStateObject}
\* seed, and the generators that RandomState(None) can give
Seeds == {VNone, VInt(0), VInt(1)}
EntropySeeds == {1, 2}

\* a model with a random_state and a cross-validator, the same as a
\* component, two of them as the steps of a pipeline: the steps have each
\* their cross-validator or share one
SeedModels ==
  {R(c, r) : c \in {VNone, VRef(1)}, r \in SeedValues}
    \cup {Ens(R(c, r)) : c \in {VNone, VRef(1)}, r \in SeedValues}
    \cup {Pipe(VList(<<VTuple(<<W("a"), R(VRef(1), r)>>),
                       VTuple(<<W("b"), R(VRef(k), VNone)>>)>>)) :
            r \in {VNone, VInt(7)}, k \in {1, 2}}

InitSeed ==
  /\ o \in SeedModels
  /\ heap \in [1..2 -> CvObjects]
  /\ installed = GoodEnv
  /\ flow = Unset
  /\ flow0 = Unset
  /\ call = Idle
  /\ results = <<>>
  /\ model = Unset
  /\ records = Unset
  /\ seedings = <<>>
  /\ threads = <<>>

\* the call returns or raises: r is what SeedModelOf gave
Seeded(seed, r) ==
  /\ o' = r.model
  /\ heap' = r.objects
  /\ seedings' = Append(seedings,
                        [seed |-> seed, model |-> o, objects |-> heap,
                         rval |-> r.rval, draws |-> r.draws,
                         model_after |-> r.model, objects_after |-> r.objects])

\* SklearnExtension.seed_model(o, seed)
SeedModel ==
  /\ Len(seedings) < MaxCalls
  /\ \E seed \in Seeds :
        \E rs \in IF seed = VNone THEN EntropySeeds ELSE {seed.i} :
           Seeded(seed, SeedModelOf(o, heap, rs))
  /\ UNCHANGED <<installed, flow, flow0, call, results, model, records, threads>>

NextSeed == SeedModel

SpecSeed == InitSeed /\ [][NextSeed]_vars

----------------------------------------------------------------------------
(* C15 *)

RECURSIVE RvValuesOf(_)
\* the frozen distributions in a value
RvValuesOf(v) ==
  CASE v.t = "rv" -> {v}
    [] IsSeq(v) -> UNION {RvValuesOf(v.e[n]) : n \in 1..Len(v.e)}
    [] v.t = "dict" -> UNION {RvValuesOf(v.kv[n][2]) : n \in 1..Len(v.kv)}
    [] v.t = "model" -> UNION {RvValuesOf(v.params[n][2]) : n \in 1..Len(v.params)}
    [] OTHER -> {}

RECURSIVE RvOnly(_)
\* a value that is made of primitives, lists, tuples, mappings with str keys,
\* models of the classes A and Ens, and frozen distributions whose arguments
\* are integers: with every class resolved it decodes without an exception
RvOnly(v) ==
  CASE v.t \in {"none", "bool", "int"} -> TRUE
    [] v.t = "rv" -> /\ v.args.t = "tuple"
                     /\ \A n \in 1..Len(v.args.e) : v.args.e[n].t = "int"
                     /\ v.kwds.t = "dict"
                     /\ \A n \in 1..Len(v.kwds.kv) : v.kwds.kv[n][2].t = "int"
    [] IsSeq(v) -> \A n \in 1..Len(v.e) : RvOnly(v.e[n])
    [] v.t = "dict" -> \A n \in 1..Len(v.kv) : v.kv[n][1].t = "str" /\ RvOnly(v.kv[n][2])
    [] v.t = "model" -> /\ v.module = SK
                        /\ v.cls \in {<<"A">>, <<"Ens">>}
                        /\ \A n \in 1..Len(v.params) : RvOnly(v.params[n][2])
    [] OTHER -> FALSE

\* the record of a distribution as a parameter of a descriptor holds it
WireValue(rv) == Get(Loads(Dumps(SerializeRvFrozen(rv))).v.kv, W("value"))

Unresolved(rv) == IsErr(ImportAttribute(rv.dist))

\* C15: when the class named by an rv_frozen record does not resolve, be it
\* that its module lacks the attribute or that the module cannot be imported,
\* deserialize_rv_frozen warns and returns None, and the deserialization
\* around it does not raise
C15_DistributionDecodeDegrades ==
  flow # Unset =>
    /\ \A rv \in RvValuesOf(o) :
          Unresolved(rv) => DeserializeRvFrozen(WireValue(rv)) = RvResult(VNone, TRUE)
    /\ \A n \in 1..Len(results) : RvOnly(o) => ~IsErr(results[n].rval)

\* with every class resolved the same values decode without an exception
C15_ResolvedDecodes ==
  \A n \in 1..Len(results) :
     (RvOnly(o) /\ \A rv \in RvValuesOf(o) : ~Unresolved(rv)) => ~IsErr(results[n].rval)

\* the attribute is missing from its module: a warning and None
C15_MissingAttribute ==
  \A n \in 1..Len(results) :
     (RvOnly(o) /\ \A rv \in RvValuesOf(o) : rv.dist # GoneModule)
       => ~IsErr(results[n].rval)

----------------------------------------------------------------------------
(* C16, C17 *)

\* a parameter that seed_model draws for
IsCandidate(item, objects) ==
  \/ HasRandomState(item[1])
  \/ /\ IsCrossValidator(item[2], objects)
     /\ HasKey(objects[item[2].id].attrs, W("random_state"))

RECURSIVE CandidatesIn(_, _)
CandidatesIn(items, objects) ==
  IF items = <<>> THEN <<>>
  ELSE (IF IsCandidate(items[1], objects) THEN <<items[1]>> ELSE <<>>)
       \o CandidatesIn(Tail(items), objects)

\* the candidates of a model, sorted by name, each with its parameter value
Candidates(m, objects) == CandidatesIn(SortByKey(GetParams(m).kv), objects)
KeysOf(items) == [n \in 1..Len(items) |-> items[n][1]]
CandidateNames(m, objects) == KeysOf(Candidates(m, objects))

\* the random_state of a candidate
CandidateValue(item, objects) ==
  IF HasRandomState(item[1]) THEN item[2]
  ELSE Get(objects[item[2].id].attrs, W("random_state"))

\* the random_state of each candidate of a model
ValuesOf(items, objects) == [n \in 1..Len(items) |-> CandidateValue(items[n], objects)]
CandidateValues(m, objects) == ValuesOf(Candidates(m, objects), objects)

\* the candidates that are None before both calls have the same value after
\* them
SameSeeds(before1, after1, before2, after2) ==
  \A n \in 1..Len(before1) :
     (before1[n] = VNone /\ before2[n] = VNone) => after1[n] = after2[n]

\* the call r of seed_model(m2, seed) gives the candidates that were None
\* before both calls what the call s gave them
SameAsCall(s, m2, objects2, r) ==
  ~IsErr(r.rval) =>
    SameSeeds(CandidateValues(s.model, s.objects),
              CandidateValues(s.model_after, s.objects_after),
              CandidateValues(m2, objects2),
              CandidateValues(r.model, r.objects))

\* C16: seed_model draws once for every candidate in the order of the sorted
\* names, seeded or not; for two models with the same sorted candidate names
\* and the same seed every candidate that is None in both gets the same value
C16_SeedingDrawStability ==
  \A n \in 1..Len(seedings) :
     (seedings[n].seed # VNone /\ ~IsErr(seedings[n].rval)) =>
        /\ seedings[n].draws = Len(Candidates(seedings[n].model, seedings[n].objects))
        /\ (\E c \in 1..seedings[n].draws :
               CandidateValues(seedings[n].model, seedings[n].objects)[c] = VNone) =>
             \A m2 \in SeedModels, objects2 \in [1..2 -> CvObjects] :
                CandidateNames(m2, objects2)
                    = CandidateNames(seedings[n].model, seedings[n].objects) =>
                  SameAsCall(seedings[n], m2, objects2,
                             SeedModelOf(m2, objects2, seedings[n].seed.i))

\* two candidates of the model refer to one cross-validator object
SharesObject(m, objects) ==
  \E a, b \in 1..Len(Candidates(m, objects)) :
     /\ a # b
     /\ ~HasRandomState(Candidates(m, objects)[a][1])
     /\ ~HasRandomState(Candidates(m, objects)[b][1])
     /\ Candidates(m, objects)[a][2] = Candidates(m, objects)[b][2]

\* where no two candidates share an object, a candidate that is None gets the
\* draw of its place in the sorted candidate names
C16_DrawOfPosition ==
  \A n \in 1..Len(seedings) :
     (/\ seedings[n].seed # VNone
      /\ ~IsErr(seedings[n].rval)
      /\ ~SharesObject(seedings[n].model, seedings[n].objects)) =>
        \A c \in 1..seedings[n].draws :
           CandidateValues(seedings[n].model, seedings[n].objects)[c] = VNone =>
             CandidateValues(seedings[n].model_after, seedings[n].objects_after)[c]
               = VInt(Randint(seedings[n].seed.i, c))

\* the parameters of a model that are no candidates, with their values; a
\* nested model and a step sequence are looked at through their parameters
RECURSIVE OthersIn(_, _)
OthersIn(items, objects) ==
  IF items = <<>> THEN <<>>
  ELSE (IF HasRandomState(items[1][1]) \/ items[1][2].t \in {"model", "list"}
          THEN <<>>
        ELSE <<items[1]>>)
       \o OthersIn(Tail(items), objects)
OtherParameters(m, objects) == OthersIn(SortByKey(GetParams(m).kv), objects)

\* an object after the call is the object before it but for random_state
SameButRandomState(before, after) ==
  /\ after.t = before.t
  /\ after.name = before.name
  /\ Len(after.attrs) = Len(before.attrs)
  /\ \A a \in 1..Len(before.attrs) :
        /\ after.attrs[a][1] = before.attrs[a][1]
        /\ before.attrs[a][1] # W("random_state") => after.attrs[a] = before.attrs[a]

\* the values of the candidates after a call that returned
SeededOutcome(before, after) ==
  /\ Len(after) = Len(before)
  /\ \A c \in 1..Len(before) :
        /\ before[c].t \in {"int", "bool"} => after[c] = before[c]
        /\ before[c] = VNone =>
             after[c].t = "int" /\ after[c].i >= 0 /\ after[c].i < 65536

\* some candidate is no integer and not None
HasBadSeed(before) == \E c \in 1..Len(before) : before[c].t \notin {"int", "bool", "none"}

\* the call s, with the values of the candidates before and after it
CallOutcome(s, before, after) ==
  /\ ~IsErr(s.rval) =>
       /\ s.rval = s.model_after
       /\ SeededOutcome(before, after)
       /\ OtherParameters(s.model_after, s.objects_after)
            = OtherParameters(s.model, s.objects)
       /\ \A id \in 1..Len(s.objects) :
             SameButRandomState(s.objects[id], s.objects_after[id])
  /\ HasBadSeed(before) <=> s.rval = Raise("ValueError")

\* C17: after seed_model returns, a candidate that was an integer is the same
\* integer, one that was None is an integer of [0, 2^16), nothing else of the
\* model or of its cross-validators has changed; a second call changes
\* nothing; a candidate that is a RandomState or another value that is no
\* integer and not None makes the call raise ValueError
C17_SeedingOutcome ==
  \A n \in 1..Len(seedings) :
     /\ CallOutcome(seedings[n],
                    CandidateValues(seedings[n].model, seedings[n].objects),
                    CandidateValues(seedings[n].model_after, seedings[n].objects_after))
     /\ (n > 1 /\ ~IsErr(seedings[n - 1].rval)) =>
          /\ ~IsErr(seedings[n].rval)
          /\ seedings[n].model_after = seedings[n].model
          /\ seedings[n].objects_after = seedings[n].objects

\* a call seeded a parameter and a cross-validator and left an integer alone;
\* a second call followed a call that returned; a call raised for a
\* RandomState
C17_Witness ==
  /\ Len(seedings) = 2
  /\ ~IsErr(seedings[1].rval)
  /\ \E a, b, c \in 1..Len(Candidates(seedings[1].model, seedings[1].objects)) :
        /\ HasRandomState(Candidates(seedings[1].model, seedings[1].objects)[a][1])
        /\ CandidateValues(seedings[1].model, seedings[1].objects)[a] = VNone
        /\ ~HasRandomState(Candidates(seedings[1].model, seedings[1].objects)[b][1])
        /\ CandidateValues(seedings[1].model, seedings[1].objects)[b] = VNone
        /\ CandidateValues(seedings[1].model, seedings[1].objects)[c].t = "int"

C17_WitnessRaise ==
  /\ Len(seedings) = 1
  /\ seedings[1].rval = Raise("ValueError")
  /\ \E c \in 1..Len(Candidates(seedings[1].model, seedings[1].objects)) :
        CandidateValues(seedings[1].model, seedings[1].objects)[c] = RandomStateObject

----------------------------------------------------------------------------
(* C18 *)

RECURSIVE FlowsOf(_)
\* a descriptor and all its descendants
FlowsOf(f) == {f} \cup UNION {FlowsOf(f.components[n][2]) : n \in 1..Len(f.components)}

\* the entries of the external_version of a descriptor, in their order
VersionEntries(f) == Split(f.external_version, ",", <<>>)

\* package==version of the package of the class of a descriptor
OwnVersion(f, env) ==
  Split(f.class_name, ".", <<>>)[1] \o <<"=", "=">>
    \o env[Split(f.class_name, ".", <<>>)[1][1]]

\* entries is strictly ascending and holds the elements of S and no other
IsSortedJoinOf(entries, S) ==
  /\ \A a, b \in 1..Len(entries) : a < b => StrLess(entries[a], entries[b])
  /\ Range(entries) = S

\* C18: the external_version of every descriptor of model_to_flow is the
\* comma-join, ascending and without duplicates, of the model's own
\* package==version, openml==version and every entry of every direct
\* component; so the entries of every descendant are entries of the root
C18_ExternalVersionAggregation ==
  (Serialized /\ flow.t = "flow") =>
     /\ \A f \in FlowsOf(flow) :
           IsSortedJoinOf(VersionEntries(f),
                          {OwnVersion(f, installed), <<"openml", "=", "=">> \o installed.openml}
                            \cup UNION {Range(VersionEntries(f.components[n][2])) :
                                          n \in 1..Len(f.components)})
     /\ \A f \in FlowsOf(flow) : Range(VersionEntries(f)) \subseteq Range(VersionEntries(flow))

\* a descriptor of an sklearn model whose component is of another package:
\* three entries at the root
C18_Witness ==
  /\ Serialized
  /\ flow.t = "flow"
  /\ Len(VersionEntries(flow)) = 3
  /\ \E n \in 1..Len(flow.components) :
        <<"mypkg", "=", "=">> \o installed.mypkg \in Range(VersionEntries(flow.components[n][2]))
  /\ OwnVersion(flow, installed) = <<"sklearn", "=", "=">> \o installed.sklearn

----------------------------------------------------------------------------
(* C19 *)

\* identifier=ComponentName of each component, in the order of the component
\* map: _extract_information_from_model registers every component, a step or
\* the value of a parameter, as an explicit one
NameEntries(f) ==
  [n \in 1..Len(f.components) |->
     f.components[n][1].s \o <<"=">> \o f.components[n][2].name]

\* the name has "(" followed by "," or by ")"
HasEmptyEntry(name) ==
  \E n \in 1..(Len(name) - 1) : name[n] = "(" /\ name[n + 1] \in {",", ")"}

\* C19: the name of a descriptor of model_to_flow is the class name alone when
\* it has no components, else the class name and in parentheses the
\* comma-separated entries identifier=ComponentName, one for each component in
\* the order of the component map; no leading comma, no empty parentheses
C19_DisplayName ==
  (Serialized /\ flow.t = "flow") =>
     \A f \in FlowsOf(flow) :
        /\ f.components = <<>> => f.name = f.class_name
        /\ f.components # <<>> =>
             f.name = f.class_name \o <<"(">> \o Join(NameEntries(f), <<",">>) \o <<")">>
        /\ f.name[1] # ","
        /\ ~HasEmptyEntry(f.name)

\* a descriptor with two components, one of which has a component itself
C19_Witness ==
  /\ Serialized
  /\ flow.t = "flow"
  /\ Len(flow.components) = 2
  /\ \E n \in 1..2 : flow.components[n][2].components # <<>>

----------------------------------------------------------------------------
(* C20 *)

RECURSIVE Supported(_)
\* every value that the recursion of sklearn_to_flow reaches from v is a
\* model, a list, a tuple, a primitive, None, a mapping whose keys are str, a
\* type, a frozen distribution, a function or a cross-validator
Supported(v) ==
  CASE v.t \in {"none", "bool", "int", "str"} -> TRUE
    [] v.t \in {"type", "rv", "function", "cv"} -> TRUE
    [] IsSeq(v) -> \A n \in 1..Len(v.e) : Supported(v.e[n])
    [] v.t = "dict" ->
         \A n \in 1..Len(v.kv) : v.kv[n][1].t = "str" /\ Supported(v.kv[n][2])
    [] v.t = "model" -> \A n \in 1..Len(v.params) : Supported(v.params[n][2])
    [] OTHER -> FALSE

\* C20: sklearn_to_flow returns a result only when every value it reaches is
\* of a supported kind; a value of another kind or a mapping with a key that
\* is no str, at any depth, makes it raise TypeError and return nothing
C20_ClosedVocabulary ==
  flow # Unset =>
     /\ ~IsErr(flow) => Supported(o)
     /\ ~Supported(o) => flow = Raise("TypeError")

\* a model whose component has a parameter of no supported kind
C20_Witness ==
  /\ flow = Raise("TypeError")
  /\ o.t = "model"
  /\ \E n \in 1..Len(o.params) :
        /\ o.params[n][2].t = "model"
        /\ \E p \in 1..Len(o.params[n][2].params) : o.params[n][2].params[p][2] = Other

----------------------------------------------------------------------------
(* C21 *)

\* q holds str in ascending order
IsAscending(q) == \A a, b \in 1..Len(q) : a < b => StrLess(q[a].s, q[b].s)

\* C21: sklearn_to_flow keeps the key order of an OrderedDict and puts the
\* keys of another mapping in ascending order; for an OrderedDict o with str
\* keys flow_to_sklearn(sklearn_to_flow(o)) has the key order of o
C21_MappingKeyOrder ==
  /\ (o.t = "dict" /\ flow.t = "dict") =>
        /\ o.ordered => KeySeq(flow.kv) = KeySeq(o.kv)
        /\ ~o.ordered => IsAscending(KeySeq(flow.kv)) /\ Range(KeySeq(flow.kv)) = Range(KeySeq(o.kv))
  /\ \A n \in 1..Len(results) :
        (/\ o.t = "dict"
         /\ o.ordered
         /\ \A k \in 1..Len(o.kv) : o.kv[k][1].t = "str"
         /\ results[n].rval.t = "dict")
        => KeySeq(results[n].rval.kv) = KeySeq(o.kv)

\* the first half alone: the key order that sklearn_to_flow gives
C21_EncodedKeyOrder ==
  (o.t = "dict" /\ flow.t = "dict") =>
     /\ o.ordered => KeySeq(flow.kv) = KeySeq(o.kv)
     /\ ~o.ordered => IsAscending(KeySeq(flow.kv)) /\ Range(KeySeq(flow.kv)) = Range(KeySeq(o.kv))

----------------------------------------------------------------------------
(* C22 *)

IsPrimitive(v) == v.t \in {"bool", "int", "str", "none"}

\* a non-empty list or tuple of lists or of tuples whose leaves are all
\* primitive scalars: bool, int, str or None
PrimitiveNested(v) ==
  /\ IsNonEmptyListOfListsWithSameType(v)
  /\ \A n \in 1..Len(FlattenAll(v.e)) : IsPrimitive(FlattenAll(v.e)[n])

\* C22: a parameter whose value is a nested list with primitive leaves only,
\* None leaves included, is a plain hyper-parameter: its wire string is the
\* JSON encoding of the whole value and it registers no component
C22_StepSequenceClassification ==
  (/\ flow # Unset
   /\ o.t = "model"
   /\ o.module = SK
   /\ \A k \in 1..Len(o.params) :
         IsPrimitive(o.params[k][2]) \/ PrimitiveNested(o.params[k][2])
   /\ \E k \in 1..Len(o.params) : PrimitiveNested(o.params[k][2]))
  => /\ flow.t = "flow"
     /\ flow.components = <<>>
     /\ \A k \in 1..Len(o.params) :
           PrimitiveNested(o.params[k][2]) =>
             Get(flow.parameters, o.params[k][1]) = VStr(Dumps(o.params[k][2]))

\* the same for the nested lists that have no None leaf
C22_SimpleLeaves ==
  (/\ flow # Unset
   /\ o.t = "model"
   /\ o.module = SK
   /\ \A k \in 1..Len(o.params) :
         IsPrimitive(o.params[k][2]) \/ NestedListOfSimpleTypes(o.params[k][2])
   /\ \E k \in 1..Len(o.params) : NestedListOfSimpleTypes(o.params[k][2]))
  => /\ flow.t = "flow"
     /\ flow.components = <<>>
     /\ \A k \in 1..Len(o.params) :
           NestedListOfSimpleTypes(o.params[k][2]) =>
             Get(flow.parameters, o.params[k][1]) = VStr(Dumps(o.params[k][2]))

----------------------------------------------------------------------------
(* C23 *)

\* a step sequence whose entries are (identifier, sub-model) with or without
\* a third item, the sub-model None or an sklearn model with primitive
\* parameters
IsStepSequence(steps) ==
  /\ IsSeq(steps)
  /\ Len(steps.e) >= 1
  /\ \A n \in 1..Len(steps.e) :
        /\ steps.e[n].t = steps.e[1].t
        /\ IsSeq(steps.e[n])
        /\ Len(steps.e[n].e) \in {2, 3}
        /\ steps.e[n].e[1].t = "str"
        /\ \/ steps.e[n].e[2].t = "none"
           \/ /\ steps.e[n].e[2].t = "model"
              /\ steps.e[n].e[2].module = SK
              /\ \A k \in 1..Len(steps.e[n].e[2].params) :
                    IsPrimitive(steps.e[n].e[2].params[k][2])

\* an entry of the step sequence has the name of a parameter of the model
Collides(m, steps) ==
  \E n \in 1..Len(steps.e) : HasKey(m.params, steps.e[n].e[1])

\* C23: when an entry of a step sequence has an identifier that is the name
\* of a parameter of the model itself, model_to_flow raises PyOpenMLError,
\* wherever the entry is and whether or not its sub-model is None
C23_IdentifierCollision ==
  (flow # Unset /\ o.t = "model") =>
     \A k \in 1..Len(o.params) :
        (IsStepSequence(o.params[k][2]) /\ Collides(o, o.params[k][2]))
          => flow = Raise("PyOpenMLError")

\* the second step of two has the name steps and no sub-model
C23_Witness ==
  /\ flow = Raise("PyOpenMLError")
  /\ o.t = "model"
  /\ \E k \in 1..Len(o.params) :
        /\ IsStepSequence(o.params[k][2])
        /\ Len(o.params[k][2].e) = 2
        /\ o.params[k][2].e[1].e[1] = W("fit")
        /\ o.params[k][2].e[2].e = <<W("steps"), VNone>>

----------------------------------------------------------------------------
(* C24 *)

\* a value that has a length, and the length is zero
IsEmptyValue(v) ==
  \/ v = VStr(<<>>)
  \/ IsSeq(v) /\ Len(v.e) = 0
  \/ v.t = "dict" /\ Len(v.kv) = 0

\* the encoded value is neither a step sequence nor a single nested model
IsPlainParameter(encoded) ==
  /\ encoded.t # "flow"
  /\ ~(IsNonEmptyListOfListsWithSameType(encoded) /\ ~NestedListOfSimpleTypes(encoded))

\* the wire value of a plain hyper-parameter
WireOf(stored, encoded) ==
  IF IsEmptyValue(encoded) THEN stored = VNone ELSE stored = VStr(Dumps(encoded))

\* C24: the wire value of a parameter that is neither a step sequence nor a
\* nested model is None exactly when the encoded value has length zero, else
\* the JSON text of the encoded value; every parameter of the model has an
\* entry in parameters and one in parameters_meta_info, with description
\* None and data type None, in ascending order of the names
C24_PlainParameterWireValue ==
  (Serialized /\ flow.t = "flow" /\ o.t = "model") =>
     /\ Len(flow.parameters) = Len(o.params)
     /\ Range(KeySeq(flow.parameters)) = Range(KeySeq(o.params))
     /\ IsAscending(KeySeq(flow.parameters))
     /\ KeySeq(flow.parameters_meta_info) = KeySeq(flow.parameters)
     /\ \A n \in 1..Len(flow.parameters_meta_info) :
           flow.parameters_meta_info[n][2]
             = VODict(<<<<W("description"), VNone>>, <<W("data_type"), VNone>>>>)
     /\ \A k \in 1..Len(o.params) :
           IsPlainParameter(SklearnToFlow(o.params[k][2], installed)) =>
             WireOf(Get(flow.parameters, o.params[k][1]),
                    SklearnToFlow(o.params[k][2], installed))

\* a model with an empty tuple, stored as None, and a list, stored as JSON
C24_Witness ==
  /\ Serialized
  /\ flow.t = "flow"
  /\ o.t = "model"
  /\ \E a, b \in 1..Len(o.params) :
        /\ o.params[a][2] = VTuple(<<>>)
        /\ Get(flow.parameters, o.params[a][1]) = VNone
        /\ o.params[b][2] = VList(<<VInt(1)>>)
        /\ Get(flow.parameters, o.params[b][1]) = VStr(<<"[", "1", "]">>)

\* ---------------------------------------------------------------------------
\* flow_to_model on descriptors as a server holds them

\* the descriptor without the declaration of its last parameter: a descriptor
\* written when the constructor of its class did not have the argument yet
Undeclared(f) ==
  IF f.t # "flow" \/ f.parameters = <<>> THEN f
  ELSE [f EXCEPT !.parameters = SubSeq(@, 1, Len(@) - 1),
                 !.parameters_meta_info = SubSeq(@, 1, Len(@) - 1)]

StoredModels ==
  {ModelA(VInt(2)), ModelA(VInt(1)), ModelB, ModelC(VInt(1), VNone),
   ModelC(W("a"), VList(<<VInt(1)>>)), Ens(ModelA(VInt(2))), Ens(VNone),
   Pipe(VList(<<VTuple(<<W("scale"), ModelB>>), VTuple(<<W("fit"), ModelA(VInt(2))>>)>>)),
   Stack(VList(<<VTuple(<<W("fit"), ModelA(VInt(2))>>)>>)),
   VModel(SK, <<"R">>, <<<<W("cv"), VNone>>, <<W("random_state"), VInt(2)>>>>)}

InitStored ==
  /\ o \in StoredModels
  /\ installed = GoodEnv
  /\ flow \in {SklearnToFlow(o, installed), Undeclared(SklearnToFlow(o, installed))}
  /\ flow0 = flow
  /\ call = Idle
  /\ results = <<>>
  /\ model = Unset
  /\ records = Unset
  /\ heap = <<>>
  /\ seedings = <<>>
  /\ threads = <<>>

\* SklearnExtension.flow_to_model(flow, initialize_with_defaults) and the steps
\* of its call
NextStored ==
  \/ \E keep \in BOOLEAN : FlowToSklearnCall(keep)
  \/ CheckDeps
  \/ DecodeParameter
  \/ FoldComponent
  \/ ConstructModel
  \/ FlowToSklearnReturn

SpecStored == InitStored /\ [][NextStored]_vars

\* the entries of the keyword map named in the claim: all of them without
\* keep-defaults, else those whose names are no default-valued constructor
\* arguments or are component names
KeptEntries(class, keep_defaults, component_keys, parameter_dict) ==
  IF ~keep_defaults THEN parameter_dict
  ELSE SelectSeq(parameter_dict,
                 LAMBDA e : ~HasKey(class.defaults, e[1]) \/ e[1] \in component_keys)

\* C25: when the parameters and components of a descriptor are decoded and its
\* class is found, the call completes with the model the constructor gives for
\* exactly the decoded entries whose names are not default-valued constructor
\* arguments or are component names (in keep-defaults mode), or for every
\* decoded entry (without keep-defaults), whether or not the descriptor
\* declared a value for each default-valued argument
C25_KeepDefaultsKeywordMap ==
  [][(call.pc = "construct" /\ IsClass(FlowAt(flow, call.path).class_name))
       => call'.rval = Construct(ClassOf(FlowAt(flow, call.path).class_name),
                                 KeptEntries(ClassOf(FlowAt(flow, call.path).class_name),
                                             call.keep,
                                             KeySet(FlowAt(flow, call.path).components),
                                             call.parameter_dict))]_vars

\* the same for descriptors that declare every default-valued argument of
\* their class
C25_DeclaredKeywordMap ==
  [][(/\ call.pc = "construct"
      /\ IsClass(FlowAt(flow, call.path).class_name)
      /\ \A n \in 1..Len(ClassOf(FlowAt(flow, call.path).class_name).defaults) :
            HasKey(call.parameter_dict,
                   ClassOf(FlowAt(flow, call.path).class_name).defaults[n][1]))
       => call'.rval = Construct(ClassOf(FlowAt(flow, call.path).class_name),
                                 KeptEntries(ClassOf(FlowAt(flow, call.path).class_name),
                                             call.keep,
                                             KeySet(FlowAt(flow, call.path).components),
                                             call.parameter_dict))]_vars

-----------------------------------------------------------------------------
(* C26 *)

\* a parameter value that is a sequence of steps each holding a sub-model
HoldsSubModels(v) ==
  /\ IsSeq(v)
  /\ \A n \in 1..Len(v.e) :
        IsSeq(v.e[n]) /\ Len(v.e[n].e) >= 2 /\ v.e[n].e[2].t = "model"

\* the component reference of a step: key = step_name = identifier, and
\* argument_1 for a step of three entries
ReferenceOfStep(step) ==
  VDict(<<<<OML, W("component_reference")>>,
          <<W("value"),
            VDict(IF Len(step.e) = 3
                    THEN <<<<W("key"), step.e[1]>>, <<W("step_name"), step.e[1]>>,
                           <<W("argument_1"), step.e[3]>>>>
                    ELSE <<<<W("key"), step.e[1]>>, <<W("step_name"), step.e[1]>>>>)>>>>)

\* the record of one declared parameter of the descriptor f for the value v
\* the model has for it: none for a single nested model, a list of component
\* references for a step sequence, the JSON of the encoded value otherwise
RecordsOfParameter(f, name, v, env) ==
  IF v.t = "model" THEN <<>>
  ELSE IF HoldsSubModels(v)
    THEN <<[t |-> "record", name |-> name,
            value |-> VStr(Dumps(VList([n \in 1..Len(v.e) |-> ReferenceOfStep(v.e[n])]))),
            component |-> f.flow_id]>>
  ELSE <<[t |-> "record", name |-> name,
          value |-> VStr(Dumps(SklearnToFlow(v, env))),
          component |-> f.flow_id]>>

RECURSIVE RecordsOfParameters(_, _, _, _)
\* the records of the parameters of f from the n-th on, in declaration order
RecordsOfParameters(f, gp, n, env) ==
  IF n > Len(f.parameters) THEN <<>>
  ELSE RecordsOfParameter(f, f.parameters[n][1], Get(gp, f.parameters[n][1]), env)
         \o RecordsOfParameters(f, gp, n + 1, env)

RECURSIVE RecordsOf(_, _, _)
RECURSIVE RecordsOfComponents(_, _, _, _)
\* the records of the components of f from the n-th on, depth-first, each
\* component paired with model.get_params()[identifier]
RecordsOfComponents(f, gp, n, env) ==
  IF n > Len(f.components) THEN <<>>
  ELSE RecordsOf(f.components[n][2], Get(gp, f.components[n][1]), env)
         \o RecordsOfComponents(f, gp, n + 1, env)

\* the records of the claim for the descriptor f and the model m
RecordsOf(f, m, env) ==
  RecordsOfParameters(f, GetParams(m).kv, 1, env)
    \o RecordsOfComponents(f, GetParams(m).kv, 1, env)

\* C26: for a descriptor and a model the schema check accepts at every level,
\* obtain_parameter_values returns the records of the declared parameters of
\* the root in declaration order, then depth-first in component order those
\* of each component for model.get_params()[identifier]; the component id of
\* a record is the flow_id of the descriptor that declares the parameter; a
\* single nested model has no record; a step sequence has one record, the
\* JSON list of one component reference per step
C26_ExtractorOutput ==
  (records # Unset /\ ~IsSchemaError(records))
    => (/\ records.t = "list"
        /\ records.e = RecordsOf(WithFlowIds(flow, FlowNames(flow)), model, installed))

\* the records of every call that returns are those of the claim
C26_ReturnedRecords ==
  (records # Unset /\ records.t = "list")
    => records.e = RecordsOf(WithFlowIds(flow, FlowNames(flow)), model, installed)

\* ---------------------------------------------------------------------------
\* flow_to_model called by two callers on one descriptor at the same time

PoolModels ==
  {ModelA(VInt(2)), Ens(ModelA(VInt(2))), Ens(Ens(ModelB)),
   Pipe(VList(<<VTuple(<<W("scale"), ModelB>>), VTuple(<<W("fit"), ModelA(VInt(2))>>)>>)),
   Pipe(VList(<<VTuple(<<W("scale"), ModelB>>), VTuple(<<W("scale"), ModelA(VInt(2))>>)>>)),
   Pipe(VList(<<VTuple(<<W("scale"), ModelB, VList(<<VInt(0)>>)>>),
                VTuple(<<W("fit"), Ens(ModelA(VInt(0)))>>)>>)),
   Stack(VList(<<VTuple(<<W("fit"), ModelA(VInt(2))>>)>>))}

InitPool ==
  /\ o \in PoolModels
  /\ installed = GoodEnv
  /\ flow = SklearnToFlow(o, installed)
  /\ flow0 = flow
  /\ call = Idle
  /\ results = <<>>
  /\ model = Unset
  /\ records = Unset
  /\ heap = <<>>
  /\ seedings = <<>>
  /\ threads = <<Idle, Idle>>

\* caller i enters flow_to_sklearn(flow, initialize_with_defaults=keep)
ThreadCall(i, keep) ==
  /\ flow.t = "flow"
  /\ threads[i].pc = "idle"
  /\ threads' = [threads EXCEPT ![i] =
                   IF ~IsSklearnFlow(flow.external_version)
                     THEN Done(NewFrame(<<>>, keep), Raise("ValueError"))
                     ELSE NewFrame(<<>>, keep)]
  /\ UNCHANGED <<o, installed, flow, flow0, call, results, model, records, heap, seedings>>

\* caller i runs the next step of its _deserialize_model
ThreadStep(i) ==
  /\ threads[i].pc \in {"deps", "params", "components", "construct"}
  /\ threads' = [threads EXCEPT ![i] = Step(threads[i], flow, installed).fr]
  /\ flow' = Step(threads[i], flow, installed).store
  /\ UNCHANGED <<o, installed, flow0, call, results, model, records, heap, seedings>>

\* caller i gets its model or its exception
ThreadReturn(i) ==
  /\ threads[i].pc = "done"
  /\ results' = Append(results, [keep |-> threads[i].keep, rval |-> threads[i].rval])
  /\ threads' = [threads EXCEPT ![i].pc = "returned"]
  /\ UNCHANGED <<o, installed, flow, flow0, call, model, records, heap, seedings>>

NextPool ==
  \/ \E i \in 1..Len(threads) : \E keep \in BOOLEAN : ThreadCall(i, keep)
  \/ \E i \in 1..Len(threads) : ThreadStep(i)
  \/ \E i \in 1..Len(threads) : ThreadReturn(i)

SpecPool == InitPool /\ [][NextPool]_vars

-----------------------------------------------------------------------------
(* C27 *)

RECURSIVE Trajectory(_, _)
\* the frames of a call that runs alone, from the frame fr on
Trajectory(fr, store) ==
  IF fr.pc = "done" THEN {fr}
  ELSE {fr} \cup Trajectory(Step(fr, store, installed).fr, Step(fr, store, installed).store)

\* C27: two deserializations of one descriptor whose steps are interleaved in
\* any order consume components from their own copies of the pool only: the
\* components of the descriptor are never changed, and the frame of each
\* call (its position, its pool, its keyword map, its result) is at every
\* moment a frame of the same call running alone on the descriptor, so that
\* no removal by the other call is visible and a complete call has the result
\* it has alone
C27_PoolIsolation ==
  /\ flow = flow0
  /\ \A i \in 1..Len(threads) :
        threads[i].pc # "idle"
          => /\ threads[i].ref \in {"copy", "none"}
             /\ [threads[i] EXCEPT !.pc = IF @ = "returned" THEN "done" ELSE @]
                  \in Trajectory(NewFrame(<<>>, threads[i].keep), flow0)

\* both callers are complete with a model that has components
C27_Witness ==
  /\ threads # <<>>
  /\ threads[1].pc = "returned"
  /\ threads[2].pc = "returned"
  /\ threads[1].rval.t = "model"
  /\ threads[2].rval.t = "model"
  /\ flow.components # <<>>

\* one caller has consumed a component that the other, in flight too, still
\* has in its pool
C27_WitnessInFlight ==
  /\ threads # <<>>
  /\ threads[1].pc = "params"
  /\ threads[2].pc = "params"
  /\ Len(threads[1].pool) < Len(threads[2].pool)

-----------------------------------------------------------------------------
(* C28 *)

RECURSIVE ReferenceKeys(_)
RECURSIVE ReferenceKeysOfAll(_)
\* the keys of the component references in a decoded JSON value, in order
ReferenceKeys(v) ==
  CASE v.t = "dict" ->
         IF HasKey(v.kv, OML) /\ Get(v.kv, OML) = W("component_reference")
           THEN <<Get(Get(v.kv, W("value")).kv, W("key"))>>
           ELSE ReferenceKeysOfAll([n \in 1..Len(v.kv) |-> v.kv[n][2]])
    [] IsSeq(v) -> ReferenceKeysOfAll(v.e)
    [] OTHER -> <<>>

ReferenceKeysOfAll(q) ==
  IF q = <<>> THEN <<>> ELSE ReferenceKeys(q[1]) \o ReferenceKeysOfAll(Tail(q))

\* the keys of the references in the wire values of the parameters of f
ReferencesOf(f) ==
  ReferenceKeysOfAll([n \in 1..Len(f.parameters) |->
                        IF f.parameters[n][2].t = "str" /\ Loads(f.parameters[n][2].s).ok
                          THEN Loads(f.parameters[n][2].s).v
                          ELSE VNone])

\* each reference names an entry of components, each entry is named by
\* exactly one reference
Bijective(keys, components) ==
  /\ \A n \in 1..Len(keys) : HasKey(components, keys[n])
  /\ \A n \in 1..Len(components) :
        Cardinality({k \in 1..Len(keys) : keys[k] = components[n][1]}) = 1

\* C28: in every descriptor that model_to_flow returns, at every level, the
\* component references in the wire values of parameters and the keys of
\* components correspond one to one; a deserialization of the descriptor
\* never looks up a component that is absent or consumed (KeyError), and its
\* pool is empty when all parameters are decoded
C28_ReferenceBijection ==
  /\ Serialized /\ flow.t = "flow"
       => \A f \in FlowsOf(flow) : Bijective(ReferencesOf(f), f.components)
  /\ (call.pc = "components" /\ flow.t = "flow") => call.pool = <<>>
  /\ (call.pc = "done" /\ flow.t = "flow") => call.rval # Raise("KeyError")

-----------------------------------------------------------------------------
(* C29 *)

\* C29: whenever seed_model raises ValueError, the model and every
\* cross-validator object reachable through its parameters have the
\* random_state values they had before the call
C29_SeedingAllOrNothing ==
  \A n \in 1..Len(seedings) :
     seedings[n].rval = Raise("ValueError")
       => /\ seedings[n].model_after = seedings[n].model
          /\ seedings[n].objects_after = seedings[n].objects

\* the parameters of the model itself are as before when the call raises:
\* set_params is not reached
C29_ParametersKept ==
  \A n \in 1..Len(seedings) :
     seedings[n].rval = Raise("ValueError")
       => seedings[n].model_after = seedings[n].model

-----------------------------------------------------------------------------
(* C30 *)

RECURSIVE DeclaredRecords(_)
RECURSIVE DeclaredRecordsOfAll(_)
\* the number of the parameters that f and its descendants declare and that
\* are no single nested model (a parameter whose name is a component too)
DeclaredRecords(f) ==
  Cardinality({n \in 1..Len(f.parameters) : ~HasKey(f.components, f.parameters[n][1])})
    + DeclaredRecordsOfAll(f.components)

DeclaredRecordsOfAll(components) ==
  IF components = <<>> THEN 0
  ELSE DeclaredRecords(components[1][2]) + DeclaredRecordsOfAll(Tail(components))

\* C30: for every model M for which model_to_flow returned a descriptor,
\* step sequences with a disabled step next to real steps and steps of three
\* entries included, obtain_parameter_values on the descriptor with its flow
\* ids and M returns, without an error, one record for each declared
\* parameter that is no single nested model
C30_ExtractorAcceptsSerialized ==
  (records # Unset /\ model = o)
    => /\ records.t = "list"
       /\ Len(records.e) = DeclaredRecords(flow)

\* the calls that return have one record for each such parameter
C30_OneRecordEach ==
  (records # Unset /\ records.t = "list")
    => Len(records.e) = DeclaredRecords(flow)

====
